---- MODULE Spec2Model ----
(***************************************************************************)
(* Model of the closed-loop session controller of the artifact-discovery   *)
(* fuzzer: the eBPF event tracer (core/tracer/ebpf_engine.py), the         *)
(* feedback channel (core/fuzzing/ipc.py), the virtual display scope       *)
(* (core/fuzzing/gui/xvfb_display.py) and the session supervisor           *)
(* (core/fuzzing/orchestrator.py).                                         *)
(*                                                                         *)
(* Strings are modelled as sequences of one-character strings, so that     *)
(* Python's substring test (`a in b`), slicing and int() parsing are       *)
(* computed rather than assumed.                                           *)
(***************************************************************************)
EXTENDS Integers, Sequences, FiniteSets, TLC

\* ------------------------------------------------------------------------
\* Bounds of the model
\* ------------------------------------------------------------------------
\* session duration (self.duration), in the seconds of time.sleep
Duration == 6
\* number of syscall events the tracer appends to its queue
MaxEvents == 2
\* number of events appended while a whole session is modelled
MaxSessionEvents == 1
\* number of times a supervised subprocess dies on its own in a session
MaxCrashes == 2
\* largest score published when the feedback channel is driven alone
MaxScore == 11
\* number of events in the log when the analysis is driven alone
MaxReportEvents == 3
\* number of "[Action]" lines in the agent's log
MaxLogLines == 2
\* the agent's --duration, in seconds
AgentDuration == 5
\* largest score the agent fetches
MaxFetched == 1
\* levels of the deep accessibility trees
TreeHeight == 10
\* children of the widest node of an accessibility tree
WideFan == 101
\* nodes findChildren returns to the agent's own crawl
MaxFound == 2
\* batches scored while the scoring is driven alone, and events in a batch
MaxBatches == 2
MaxBatchEvents == 2

\* ------------------------------------------------------------------------
\* Program constants
\* ------------------------------------------------------------------------
\* target_name.lower()[:15]
CommLen == 15
\* time.sleep(5) after a target launch
SettleDelay == 5
\* time.sleep(1) at the end of a monitoring tick
TickDelay == 1
\* best_gap = 5.0 in _analyze_results
BestGap == 5
\* scan_limit = 100 in _get_interactable_elements
scan_limit == 100
\* "0 <= x <= 1920 and 0 <= y <= 1080" in _get_interactable_elements
ScreenWidth == 1920
ScreenHeight == 1080
\* "if depth < 3" in _get_interactable_elements
MaxDepth == 3

\* ------------------------------------------------------------------------
\* String helpers
\* ------------------------------------------------------------------------
Min(a, b) == IF a < b THEN a ELSE b

\* Python `pat in s` on strings: pat occurs as a contiguous substring of s
Contains(s, pat) ==
    \E i \in 0..(Len(s) - Len(pat)) :
        \A j \in 1..Len(pat) : s[i + j] = pat[j]

\* Python s[:n]
Prefix(s, n) == SubSeq(s, 1, Min(n, Len(s)))

\* str.lower() on the characters the model uses
LowerChar(c) ==
    CASE c = "C" -> "c"
      [] c = "H" -> "h"
      [] c = "R" -> "r"
      [] c = "O" -> "o"
      [] c = "M" -> "m"
      [] c = "E" -> "e"
      [] c = "B" -> "b"
      [] c = "G" -> "g"
      [] c = "A" -> "a"
      [] OTHER -> c

Lower(s) == [i \in 1..Len(s) |-> LowerChar(s[i])]

\* ------------------------------------------------------------------------
\* Configuration data of the session
\* ------------------------------------------------------------------------
\* EBPFTracer(interest_patterns=[chrome_user_dir, "/home", "/tmp"], ...)
interest_patterns ==
    { <<"/", "h", "o", "m", "e">>, <<"/", "t", "m", "p">> }

\* EBPFTracer(..., ignore_patterns=["Singleton", "LOCK", ".so", ...])
ignore_patterns ==
    { <<"S", "i", "n", "g", "l", "e", "t", "o", "n">>,
      <<"L", "O", "C", "K">>,
      <<".", "s", "o">> }

\* self.config.get("process_name", "chrome") as handed to start_trace
TargetName == <<"C", "h", "r", "o", "m", "e">>

\* Kernel comm names and paths of the syscalls observed on the host
CommChrome == <<"c", "h", "r", "o", "m", "e">>
CommBash == <<"b", "a", "s", "h">>
CommLong == <<"c", "h", "r", "o", "m", "i", "u", "m", "-",
              "b", "r", "o", "w", "s", "e">>
PathKeep == <<"/", "t", "m", "p", "/", "a">>
PathBoth == <<"/", "t", "m", "p", "/", "L", "O", "C", "K">>
PathExcl == <<"/", "l", "i", "b", "/", "x", ".", "s", "o">>
PathNone == <<"/", "e", "t", "c", "/", "a">>
PathHome == <<"/", "h", "o", "m", "e", "/", "k", "e", "y">>

\* struct event_data_t as submitted by the three tracepoints
RawEvents ==
    { [comm |-> CommChrome, fname |-> PathKeep, type |-> 1],
      [comm |-> CommChrome, fname |-> PathHome, type |-> 2],
      [comm |-> CommChrome, fname |-> PathBoth, type |-> 1],
      [comm |-> CommChrome, fname |-> PathExcl, type |-> 1],
      [comm |-> CommChrome, fname |-> PathNone, type |-> 3],
      [comm |-> CommBash,   fname |-> PathKeep, type |-> 2],
      [comm |-> CommLong,   fname |-> PathKeep, type |-> 3] }

\* the target names start_trace is given when the tracer is driven alone
LongName == <<"C", "h", "r", "o", "m", "i", "u", "m", "-",
              "B", "r", "o", "w", "s", "e", "r">>
TargetNames == { <<>>, TargetName, LongName }

\* the events the host produces while a whole session is modelled
SessionEvents ==
    { [comm |-> CommChrome, fname |-> PathKeep, type |-> 1],
      [comm |-> CommChrome, fname |-> PathBoth, type |-> 1] }

\* ------------------------------------------------------------------------
\* State
\* ------------------------------------------------------------------------
VARIABLES
    \* --- EBPFTracer ---
    tracer_running,   \* self.running
    bpf,              \* self.bpf: "None" | "attached" | "cleaned"
    target_comm,      \* self.target_comm (<<>> for None)
    event_queue,      \* self.event_queue
    events,           \* the local `events` of a get_events call in progress
    n_appended,       \* number of events appended so far (their timestamps)
    last_raw,         \* the event last handed to _process_event
    \* --- XvfbDisplay ---
    xvfb_proc,        \* "None" | "running" | "terminated"
    fluxbox_proc,     \* "None" | "running" | "terminated"
    auth_file,        \* "absent" | "present" | "removed"
    \* --- FeedbackServer ---
    ipc_running,      \* self.running
    ipc_sock,         \* "None" | "listening" | "unbound" | "closed"
    artifact_count,   \* self.artifact_count
    \* --- ArtifactDiscoverySession ---
    pc,               \* position of the controller in run()
    exc,              \* how run() is leaving: "none" | "return" |
                      \* "KeyboardInterrupt" | "Exception"
    profile,          \* chrome_user_dir: [exists, dirty]
    proc,             \* self.proc
    fuzzer_proc,      \* self.fuzzer_proc
    recov,            \* launches made by the self-healing block in progress
    crashes,          \* deaths of supervised subprocesses so far
    elapsed,          \* time.time() - start_time, capped at Duration
    all_events,       \* self.all_events
    total_score,      \* total_score of run()
    scored,           \* per scored batch, which of its files existed
    \* --- FeedbackClient and the loopback connection ---
    cpc,              \* position of the agent in get_artifact_count()
    conn,             \* the connection: "none" | "open" | "GET" | "foreign"
    wire,             \* bytes sent back to the client, not yet received
    rx,               \* what the socket calls of the last exchange produced
    fetch_ret,        \* outcome of the last get_artifact_count() call
    served,           \* who answered the last request, and the score read
    \* --- _analyze_results ---
    fuzzer_log,       \* the "[Action]" lines of the agent's log: [time, action]
    report,           \* the list built for artifact_footprint.json
    report_file,      \* artifact_footprint.json: "absent" or "written"
    \* --- IntelligentFuzzer (the agent) ---
    q_values,         \* action -> learned value, in halves (20 is 10.0)
    epsilon,          \* exploration rate, in tenths (3 is 0.3)
    last_action,      \* "None" or the action chosen last
    state_visits,     \* UI state -> number of visits
    last_score,       \* score fetched last
    agent_time,       \* time.time() - start_time of start()
    turn,             \* locals of the current iteration of start()'s loop
    history,          \* record of what the loop did, kept for the properties
    \* --- FuzzerActions._get_interactable_elements (the crawler) ---
    tree,             \* the accessibility tree under app_node
    queue,            \* the BFS queue of [node, depth]
    visited,          \* identities seen
    scanned_count,    \* nodes counted against scan_limit
    candidates,       \* the candidate list
    examined,         \* every [node, depth] taken off the queue, in order
    \* --- functions called on their own ---
    call,             \* the function called and its arguments
    ret               \* what it returned

tracerVars == <<tracer_running, bpf, target_comm, event_queue, events,
                n_appended, last_raw>>
displayVars == <<xvfb_proc, fluxbox_proc, auth_file>>
ipcVars == <<ipc_running, ipc_sock, artifact_count>>
procVars == <<proc, fuzzer_proc, recov, crashes>>
runVars == <<exc, profile, elapsed, all_events, total_score, scored>>
sessVars == <<pc, runVars>>
chanVars == <<cpc, conn, wire, rx, fetch_ret, served>>
reportVars == <<fuzzer_log, report, report_file>>
agentVars == <<q_values, epsilon, last_action, state_visits, last_score,
               agent_time, turn, history>>
crawlVars == <<tree, queue, visited, scanned_count, candidates, examined>>
callVars == <<call, ret>>
vars == <<tracerVars, displayVars, ipcVars, procVars, sessVars, chanVars,
          reportVars, agentVars, crawlVars,
        callVars>>

\* what the actions of the feedback channel driven alone leave alone
chanFrame == <<tracerVars, displayVars, procVars, sessVars, reportVars,
               agentVars, crawlVars,
        callVars>>
\* what the actions of a session leave alone
sessionFrame == <<chanVars, reportVars, agentVars, crawlVars,
        callVars>>
\* what the actions of the tracer driven alone leave alone
tracerFrame == <<displayVars, ipcVars, procVars, exc, profile, elapsed,
                 total_score, scored, chanVars, reportVars, agentVars, crawlVars,
        callVars>>
\* what the actions of the analysis driven alone leave alone
reportFrame == <<tracerVars, displayVars, ipcVars, procVars, exc, profile,
                 elapsed, total_score, scored, chanVars, agentVars, crawlVars,
        callVars>>
\* what the actions of the agent driven alone leave alone
agentFrame == <<tracerVars, displayVars, ipcVars, procVars, runVars, chanVars,
                reportVars, crawlVars,
        callVars>>
\* what the actions of the crawler driven alone leave alone
crawlFrame == <<tracerVars, displayVars, ipcVars, procVars, runVars, chanVars,
                reportVars, agentVars,
        callVars>>
\* what a function called on its own leaves alone
callFrame == <<tracerVars, displayVars, ipcVars, procVars, runVars, chanVars,
               reportVars, agentVars, crawlVars>>
\* what the scoring of drained batches driven alone leaves alone
scoreFrame == <<tracer_running, bpf, target_comm, event_queue, n_appended,
                last_raw, displayVars, procVars, exc, profile, elapsed,
                chanVars, reportVars, agentVars, crawlVars, callVars>>

\* ------------------------------------------------------------------------
\* EBPFTracer (core/tracer/ebpf_engine.py)
\* ------------------------------------------------------------------------
event_types(t) ==
    CASE t = 1 -> "OPEN"
      [] t = 2 -> "DELETE"
      [] t = 3 -> "RENAME"
      [] OTHER -> "UNKNOWN"

NoRaw == [comm |-> <<>>, fname |-> <<>>, type |-> 0]

\* the include list consulted before the exclude list
AcceptsIncludeFirst(e) ==
    /\ ~(target_comm # <<>> /\ ~Contains(Lower(e.comm), target_comm))
    /\ \E interest \in interest_patterns : Contains(e.fname, interest)

\* _process_event, the three early returns: TRUE iff the event is kept
Accepts(e) ==
    /\ ~(target_comm # <<>> /\ ~Contains(Lower(e.comm), target_comm))
    /\ ~(\E ignore \in ignore_patterns : Contains(e.fname, ignore))
    /\ \E interest \in interest_patterns : Contains(e.fname, interest)

py_event(e) ==
    [timestamp |-> n_appended + 1,
     process_name |-> Lower(e.comm),
     type |-> event_types(e.type),
     filename |-> e.fname]

\* _process_event(cpu, data, size): the perf-buffer callback, run by the
\* polling thread for one kernel event
ProcessEvent(e) ==
    /\ tracer_running
    /\ bpf = "attached"
    /\ n_appended < MaxEvents
    /\ IF Accepts(e)
         THEN /\ event_queue' = Append(event_queue, py_event(e))
              /\ n_appended' = n_appended + 1
         ELSE UNCHANGED <<event_queue, n_appended>>
    /\ UNCHANGED <<tracer_running, bpf, target_comm, events>>

\* _poll_loop: perf_buffer_poll hands one kernel event to the callback
PollLoop(e) ==
    /\ ProcessEvent(e)
    /\ last_raw' = e

\* start_trace() keeping the whole lower-cased name
StartTraceUntruncated(target_name, attached) ==
    /\ target_comm' = Lower(target_name)
    /\ IF attached
         THEN /\ bpf' = "attached"
              /\ tracer_running' = TRUE
         ELSE /\ bpf' = "None"
              /\ tracer_running' = FALSE
    /\ UNCHANGED <<event_queue, events, n_appended, last_raw>>

\* start_trace(root_pid, target_name); attached = the BPF compile and probe
\* attach succeeded, otherwise the except branch ran
StartTrace(target_name, attached) ==
    /\ target_comm' = IF target_name # <<>>
                        THEN Prefix(Lower(target_name), CommLen)
                        ELSE <<>>
    /\ IF attached
         THEN /\ bpf' = "attached"
              /\ tracer_running' = TRUE
         ELSE /\ bpf' = "None"
              /\ tracer_running' = FALSE
    /\ UNCHANGED <<event_queue, events, n_appended, last_raw>>

\* stop_trace()
StopTrace ==
    /\ tracer_running' = FALSE
    /\ bpf' = IF bpf = "attached" THEN "cleaned" ELSE bpf
    /\ UNCHANGED <<target_comm, event_queue, events, n_appended, last_raw>>

\* stop_trace() when self.bpf.cleanup() (line 165) raises: the flag is
\* down, the probes are not released
StopTraceRaises ==
    /\ tracer_running' = FALSE
    /\ UNCHANGED <<bpf, target_comm, event_queue, events, n_appended,
                   last_raw>>

\* get_events(), line 169: events = list(self.event_queue)
GetEventsList ==
    /\ events' = event_queue
    /\ UNCHANGED <<tracer_running, bpf, target_comm, event_queue,
                   n_appended, last_raw>>

\* get_events(), line 170: self.event_queue.clear(); return events
GetEventsClear ==
    /\ event_queue' = <<>>
    /\ UNCHANGED <<tracer_running, bpf, target_comm, events,
                   n_appended, last_raw>>

\* ------------------------------------------------------------------------
\* XvfbDisplay (core/fuzzing/gui/xvfb_display.py)
\* ------------------------------------------------------------------------
\* __enter__: auth file, Xvfb, then fluxbox (wm = fluxbox is installed)
XvfbEnter(wm) ==
    /\ auth_file' = "present"
    /\ xvfb_proc' = "running"
    /\ fluxbox_proc' = IF wm THEN "running" ELSE "None"

\* the window manager left running
ExitFluxboxForgotten ==
    UNCHANGED <<fluxbox_proc, xvfb_proc, auth_file>>

\* __exit__, lines 56-57: if self.fluxbox_proc: terminate()
ExitFluxbox ==
    /\ fluxbox_proc' = IF fluxbox_proc # "None" THEN "terminated"
                                                ELSE fluxbox_proc
    /\ UNCHANGED <<xvfb_proc, auth_file>>

\* __exit__, lines 60-62: if self.xvfb_proc: terminate(); wait()
ExitXvfb ==
    /\ xvfb_proc' = IF xvfb_proc # "None" THEN "terminated" ELSE xvfb_proc
    /\ UNCHANGED <<fluxbox_proc, auth_file>>

\* __exit__, lines 64-65: if os.path.exists(auth_file): os.remove(auth_file)
ExitAuth ==
    /\ auth_file' = IF auth_file = "present" THEN "removed" ELSE auth_file
    /\ UNCHANGED <<xvfb_proc, fluxbox_proc>>

\* ------------------------------------------------------------------------
\* FeedbackServer (core/fuzzing/ipc.py)
\* ------------------------------------------------------------------------
\* update_count(count)
UpdateCount(count) ==
    /\ artifact_count' = count
    /\ UNCHANGED <<ipc_running, ipc_sock>>

\* start(); bound = bind and listen succeeded, otherwise the except branch
IpcStart(bound) ==
    /\ ipc_running' = TRUE
    /\ ipc_sock' = IF bound THEN "listening" ELSE "unbound"
    /\ UNCHANGED artifact_count

\* stop()
IpcStop ==
    /\ ipc_running' = FALSE
    /\ ipc_sock' = IF ipc_sock # "None" THEN "closed" ELSE ipc_sock
    /\ UNCHANGED artifact_count

NoRet == [status |-> "none", value |-> 0]
NoRx == [kind |-> "none", data |-> <<>>]

\* ------------------------------------------------------------------------
\* MetadataExtractor.calculate_forensic_score and calculate_reward
\* ------------------------------------------------------------------------
\* calculate_forensic_score(filepath), in halves of a point: 0.5 for a file
\* that no longer exists; for an existing file the call
\* self._calculate_entropy(filepath, limit=2048) names a parameter the
\* method does not have (it is declared `limi`), so the try block always
\* ends in the except branch, which returns 1.0
calculate_forensic_score(exists) == IF exists THEN 2 ELSE 1

RECURSIVE SumScores(_, _)
SumScores(ex, n) ==
    IF n = 0 THEN 0
    ELSE SumScores(ex, n - 1) + calculate_forensic_score(ex[n])

\* calculate_reward taking a point off for every file that is gone
calculate_rewardWithPenalty(new_events, ex) ==
    (SumScores(ex, Len(new_events)) \div 2)
        - Cardinality({i \in 1..Len(new_events) : ~ex[i]})

\* calculate_reward(new_events) with no target rules loaded
\* (self.targets_config = []): int(sum of the forensic scores);
\* ex[i] = the file of the i-th event exists on disk
calculate_reward(new_events, ex) == SumScores(ex, Len(new_events)) \div 2

\* ------------------------------------------------------------------------
\* ArtifactDiscoverySession (core/fuzzing/orchestrator.py)
\* ------------------------------------------------------------------------
None == [id |-> 0, alive |-> FALSE]

\* the controller is inside the try block of the monitoring loop
TryPcs ==
    {"loop_top", "chk_target", "rec_kill_fuzzer", "rec_setup",
     "rec_launch_target", "rec_settle", "rec_launch_fuzzer", "chk_fuzzer",
     "get_list", "get_clear", "process", "sleep"}

\* the controller is inside the `with XvfbDisplay` block, outside the try
BodyPcs ==
    {"start_trace", "launch_target", "launch_fuzzer", "start_loop",
     "drain_list",
     "drain_clear", "drain_process", "cl_fuzzer", "cl_ipc", "cl_tracer",
     "cl_target"}

ExitPcs == {"exit_flux", "exit_xvfb", "exit_auth"}

EndPcs == {"done", "returned", "raised"}

\* _setup_inputs(): the profile directory is created only if missing
SetupInputs ==
    profile' = IF ~profile.exists
                 THEN [exists |-> TRUE, dirty |-> FALSE]
                 ELSE profile

\* _launch_target(target_env): a new process, or None when no command is
\* resolved or the executable is not found
LaunchTarget(ok) ==
    proc' = IF ok THEN [id |-> proc.id + 1, alive |-> TRUE] ELSE None

\* _launch_fuzzer(target_env)
LaunchFuzzer ==
    fuzzer_proc' = [id |-> fuzzer_proc.id + 1, alive |-> TRUE]

\* run(), lines 244-246
RunStart ==
    /\ pc = "start"
    /\ SetupInputs
    /\ \E bound \in BOOLEAN : IpcStart(bound)
    /\ pc' = "xvfb_enter"
    /\ UNCHANGED <<tracerVars, displayVars, procVars, exc, elapsed,
                   all_events, total_score, scored>>
    /\ UNCHANGED sessionFrame

\* run(), line 248: entering the display scope; if Xvfb cannot be started
\* the exception leaves run() before the scope is entered
RunEnterDisplay ==
    /\ pc = "xvfb_enter"
    /\ \/ /\ \E wm \in BOOLEAN : XvfbEnter(wm)
          /\ pc' = "start_trace"
          /\ exc' = exc
       \/ /\ auth_file' = "present"
          /\ UNCHANGED <<xvfb_proc, fluxbox_proc>>
          /\ pc' = "raised"
          /\ exc' = "FileNotFoundError"
    /\ UNCHANGED <<tracerVars, ipcVars, procVars, profile, elapsed,
                   all_events, total_score, scored>>
    /\ UNCHANGED sessionFrame

\* the agent launched ahead of the target
AfterStartTraceAgentFirst == "launch_fuzzer"

\* run(), lines 253-269: after start_trace comes the initial target launch
AfterStartTrace == "launch_target"

\* run(), lines 251-253
RunStartTrace ==
    /\ pc = "start_trace"
    /\ \E attached \in BOOLEAN : StartTrace(TargetName, attached)
    /\ pc' = AfterStartTrace
    /\ UNCHANGED <<displayVars, ipcVars, procVars, runVars>>
    /\ UNCHANGED sessionFrame

\* run(), lines 256-270: the initial launch; `if not self.proc: return`
RunLaunchTarget ==
    /\ pc = "launch_target"
    /\ \E ok \in BOOLEAN : LaunchTarget(ok)
    /\ IF proc' = None
         THEN pc' = "exit_flux" /\ exc' = "return"
         ELSE pc' = "launch_fuzzer" /\ exc' = exc
    /\ UNCHANGED <<tracerVars, displayVars, ipcVars, fuzzer_proc, recov,
                   crashes, profile, elapsed, all_events, total_score, scored>>
    /\ UNCHANGED sessionFrame

\* run(), lines 272-274: settle, then launch the agent
RunLaunchFuzzer ==
    /\ pc = "launch_fuzzer"
    /\ LaunchFuzzer
    /\ pc' = "start_loop"
    /\ UNCHANGED <<tracerVars, displayVars, ipcVars, proc, recov, crashes,
                   runVars>>
    /\ UNCHANGED sessionFrame

\* run(), lines 276-278: start_time = time.time(), total_score = 0.0
RunStartLoop ==
    /\ pc = "start_loop"
    /\ elapsed' = 0
    /\ total_score' = 0
    /\ scored' = <<>>
    /\ pc' = "loop_top"
    /\ UNCHANGED <<tracerVars, displayVars, ipcVars, procVars, exc, profile,
                   all_events>>
    /\ UNCHANGED sessionFrame

\* the deadline check dropped from the loop
DeadlineNeverReached == FALSE

\* run(), line 282: time.time() - start_time >= self.duration
DeadlineReached == elapsed >= Duration

\* run(), lines 282-284: the deadline check at the top of every tick
LoopTop ==
    /\ pc = "loop_top"
    /\ pc' = IF DeadlineReached THEN "drain_list" ELSE "chk_target"
    /\ UNCHANGED <<tracerVars, displayVars, ipcVars, procVars, runVars>>
    /\ UNCHANGED sessionFrame

\* run(), lines 287-288: self.proc.poll() is not None
CheckTarget ==
    /\ pc = "chk_target"
    /\ IF ~proc.alive
         THEN pc' = "rec_kill_fuzzer" /\ recov' = [t |-> 0, a |-> 0]
         ELSE pc' = "chk_fuzzer" /\ recov' = recov
    /\ UNCHANGED <<tracerVars, displayVars, ipcVars, proc, fuzzer_proc,
                   crashes, runVars>>
    /\ UNCHANGED sessionFrame

\* lines 291-293 left out: the recovery goes on with the agent running
RecKillFuzzerSkipped ==
    /\ pc = "rec_kill_fuzzer"
    /\ pc' = "rec_setup"
    /\ UNCHANGED <<tracerVars, displayVars, ipcVars, procVars, runVars>>
    /\ UNCHANGED sessionFrame

\* run(), lines 291-293: terminate and reap the agent if it is alive
RecKillFuzzer ==
    /\ pc = "rec_kill_fuzzer"
    /\ fuzzer_proc' = IF fuzzer_proc # None /\ fuzzer_proc.alive
                        THEN [fuzzer_proc EXCEPT !.alive = FALSE]
                        ELSE fuzzer_proc
    /\ pc' = "rec_setup"
    /\ UNCHANGED <<tracerVars, displayVars, ipcVars, proc, recov, crashes,
                   runVars>>
    /\ UNCHANGED sessionFrame

\* run(), line 296: self._setup_inputs()
RecSetup ==
    /\ pc = "rec_setup"
    /\ SetupInputs
    /\ pc' = "rec_launch_target"
    /\ UNCHANGED <<tracerVars, displayVars, ipcVars, procVars, exc, elapsed,
                   all_events, total_score, scored>>
    /\ UNCHANGED sessionFrame

\* the break of line 302 left out
AfterRelaunchNoBreak(p) == "rec_settle"

\* run(), lines 300-303: where the controller goes after the relaunch
AfterRelaunch(p) == IF p = None THEN "drain_list" ELSE "rec_settle"

\* run(), lines 299-302: relaunch the target; break if it failed
RecLaunchTarget ==
    /\ pc = "rec_launch_target"
    /\ \E ok \in BOOLEAN : LaunchTarget(ok)
    /\ recov' = [recov EXCEPT !.t = @ + (IF proc' # None THEN 1 ELSE 0)]
    /\ pc' = AfterRelaunch(proc')
    /\ UNCHANGED <<tracerVars, displayVars, ipcVars, fuzzer_proc, crashes,
                   runVars>>
    /\ UNCHANGED sessionFrame

\* run(), line 303: time.sleep(5)
RecSettle ==
    /\ pc = "rec_settle"
    /\ elapsed' = Min(elapsed + SettleDelay, Duration)
    /\ pc' = "rec_launch_fuzzer"
    /\ UNCHANGED <<tracerVars, displayVars, ipcVars, procVars, exc, profile,
                   all_events, total_score, scored>>
    /\ UNCHANGED sessionFrame

\* the recovery block re-entered after the agent relaunch
AfterRecoveryAgain == "rec_launch_target"

\* run(), lines 306-310: after "System restored" the tick goes on with the
\* agent check
AfterRecovery == "chk_fuzzer"

\* run(), lines 306-307: relaunch the agent, "System restored"
RecLaunchFuzzer ==
    /\ pc = "rec_launch_fuzzer"
    /\ LaunchFuzzer
    /\ recov' = [recov EXCEPT !.a = @ + 1]
    /\ pc' = AfterRecovery
    /\ UNCHANGED <<tracerVars, displayVars, ipcVars, proc, crashes, runVars>>
    /\ UNCHANGED sessionFrame

\* the agent restart taking the target and its profile with it
RestartFuzzerAndTarget ==
    /\ LaunchFuzzer
    /\ LaunchTarget(TRUE)
    /\ profile' = [exists |-> TRUE, dirty |-> FALSE]

\* run(), lines 311-314: "Restarting Fuzzer only..."
RestartFuzzerOnly ==
    /\ LaunchFuzzer
    /\ UNCHANGED <<proc, profile>>

\* lines 310-314 without the poll(): an agent is launched in every tick
CheckFuzzerWithoutPoll ==
    /\ pc = "chk_fuzzer"
    /\ RestartFuzzerOnly
    /\ recov' = [t |-> 0, a |-> 0]
    /\ pc' = "get_list"
    /\ UNCHANGED <<tracerVars, displayVars, ipcVars, crashes, exc, elapsed,
                   all_events, total_score, scored>>
    /\ UNCHANGED sessionFrame

\* run(), lines 310-314: restart the agent only, if it is found dead
CheckFuzzer ==
    /\ pc = "chk_fuzzer"
    /\ IF ~fuzzer_proc.alive
         THEN RestartFuzzerOnly
         ELSE UNCHANGED <<fuzzer_proc, proc, profile>>
    /\ recov' = [t |-> 0, a |-> 0]
    /\ pc' = "get_list"
    /\ UNCHANGED <<tracerVars, displayVars, ipcVars, crashes, exc, elapsed,
                   all_events, total_score, scored>>
    /\ UNCHANGED sessionFrame

\* lines 322-323 publishing the reward of the batch, not the running total
ScoreBatchPublishingLast ==
    IF events # <<>>
      THEN \E ex \in [1..Len(events) -> BOOLEAN] :
             /\ all_events' = all_events \o events
             /\ total_score' = total_score + calculate_reward(events, ex)
             /\ scored' = Append(scored, ex)
             /\ UpdateCount(calculate_reward(events, ex))
      ELSE UNCHANGED <<all_events, total_score, scored, ipcVars>>

\* run(), lines 317-329 and 336-341: account for a drained batch
ScoreBatch ==
    IF events # <<>>
      THEN \E ex \in [1..Len(events) -> BOOLEAN] :
             /\ all_events' = all_events \o events
             /\ total_score' = total_score + calculate_reward(events, ex)
             /\ scored' = Append(scored, ex)
             /\ UpdateCount(total_score')
      ELSE UNCHANGED <<all_events, total_score, scored, ipcVars>>

\* run(), line 316: new_events = self.tracer.get_events(), first half
GetList ==
    /\ pc = "get_list"
    /\ GetEventsList
    /\ pc' = "get_clear"
    /\ UNCHANGED <<displayVars, ipcVars, procVars, runVars>>
    /\ UNCHANGED sessionFrame

\* run(), line 316: get_events, second half
GetClear ==
    /\ pc = "get_clear"
    /\ GetEventsClear
    /\ pc' = "process"
    /\ UNCHANGED <<displayVars, ipcVars, procVars, runVars>>
    /\ UNCHANGED sessionFrame

\* run(), lines 317-329; the batch is not used after this
Process ==
    /\ pc = "process"
    /\ ScoreBatch
    /\ events' = <<>>
    /\ pc' = "sleep"
    /\ UNCHANGED <<tracer_running, bpf, target_comm, event_queue, n_appended,
                   last_raw, displayVars, procVars, exc, profile, elapsed>>
    /\ UNCHANGED sessionFrame

\* run(), line 331: time.sleep(1)
Sleep ==
    /\ pc = "sleep"
    /\ elapsed' = Min(elapsed + TickDelay, Duration)
    /\ pc' = "loop_top"
    /\ UNCHANGED <<tracerVars, displayVars, ipcVars, procVars, exc, profile,
                   all_events, total_score, scored>>
    /\ UNCHANGED sessionFrame

\* run(), line 335: final_events = self.tracer.get_events(), first half
DrainList ==
    /\ pc = "drain_list"
    /\ GetEventsList
    /\ pc' = "drain_clear"
    /\ UNCHANGED <<displayVars, ipcVars, procVars, runVars>>
    /\ UNCHANGED sessionFrame

\* run(), line 335: get_events, second half
DrainClear ==
    /\ pc = "drain_clear"
    /\ GetEventsClear
    /\ pc' = "drain_process"
    /\ UNCHANGED <<displayVars, ipcVars, procVars, runVars>>
    /\ UNCHANGED sessionFrame

\* run(), lines 336-341
DrainProcess ==
    /\ pc = "drain_process"
    /\ ScoreBatch
    /\ events' = <<>>
    /\ pc' = "cl_fuzzer"
    /\ UNCHANGED <<tracer_running, bpf, target_comm, event_queue, n_appended,
                   last_raw, displayVars, procVars, exc, profile, elapsed>>
    /\ UNCHANGED sessionFrame

\* _cleanup(), line 349: if self.fuzzer_proc: self.fuzzer_proc.terminate()
CleanupFuzzer ==
    /\ pc = "cl_fuzzer"
    /\ fuzzer_proc' = IF fuzzer_proc # None
                        THEN [fuzzer_proc EXCEPT !.alive = FALSE]
                        ELSE fuzzer_proc
    /\ pc' = "cl_ipc"
    /\ UNCHANGED <<tracerVars, displayVars, ipcVars, proc, recov, crashes,
                   runVars>>
    /\ UNCHANGED sessionFrame

\* _cleanup(), line 350: self.ipc_server.stop()
CleanupIpc ==
    /\ pc = "cl_ipc"
    /\ IpcStop
    /\ pc' = "cl_tracer"
    /\ UNCHANGED <<tracerVars, displayVars, procVars, runVars>>
    /\ UNCHANGED sessionFrame

\* _cleanup(), line 351: self.tracer.stop_trace(); the call is not
\* guarded, so an exception of bpf.cleanup() leaves _cleanup and the
\* `with` block
CleanupTracer ==
    /\ pc = "cl_tracer"
    /\ \/ /\ StopTrace
          /\ pc' = "cl_target"
          /\ exc' = exc
       \/ /\ bpf = "attached"
          /\ StopTraceRaises
          /\ pc' = "exit_flux"
          /\ exc' = "Exception"
    /\ UNCHANGED <<displayVars, ipcVars, procVars, profile, elapsed,
                   all_events, total_score, scored>>
    /\ UNCHANGED sessionFrame

\* _cleanup(), lines 352-354: SIGTERM to the target's process group
CleanupTarget ==
    /\ pc = "cl_target"
    /\ proc' = IF proc # None THEN [proc EXCEPT !.alive = FALSE] ELSE proc
    /\ pc' = "exit_flux"
    /\ UNCHANGED <<tracerVars, displayVars, ipcVars, fuzzer_proc, recov,
                   crashes, runVars>>
    /\ UNCHANGED sessionFrame

\* leaving the `with` block: XvfbDisplay.__exit__, first step
RunExitFluxbox ==
    /\ pc = "exit_flux"
    /\ ExitFluxbox
    /\ pc' = "exit_xvfb"
    /\ UNCHANGED <<tracerVars, ipcVars, procVars, runVars>>
    /\ UNCHANGED sessionFrame

\* XvfbDisplay.__exit__, second step
RunExitXvfb ==
    /\ pc = "exit_xvfb"
    /\ ExitXvfb
    /\ pc' = "exit_auth"
    /\ UNCHANGED <<tracerVars, ipcVars, procVars, runVars>>
    /\ UNCHANGED sessionFrame

\* XvfbDisplay.__exit__, last step; then run() goes on to _analyze_results,
\* returns (line 270) or re-raises the pending exception
RunExitAuth ==
    /\ pc = "exit_auth"
    /\ ExitAuth
    /\ pc' = CASE exc = "none" -> "analyze"
               [] exc = "return" -> "returned"
               [] OTHER -> "raised"
    /\ UNCHANGED <<tracerVars, ipcVars, procVars, runVars>>
    /\ UNCHANGED sessionFrame

\* lines 390-397 with an action exactly best_gap before the event taken
LikelyCauseInclusive(created_time, actions) ==
    LET near == {i \in 1..Len(actions) :
                    /\ 0 <= created_time - actions[i].time
                    /\ created_time - actions[i].time <= BestGap}
    IN  IF near = {} THEN "Unknown (Background)"
        ELSE actions[CHOOSE i \in near : \A j \in near : j <= i].action

\* _analyze_results(), lines 390-397: the last logged action (in file
\* order) whose time lies at most best_gap = 5.0 before the event, gap
\* excluded; "Unknown (Background)" if there is none
LikelyCause(created_time, actions) ==
    LET near == {i \in 1..Len(actions) :
                    /\ 0 <= created_time - actions[i].time
                    /\ created_time - actions[i].time < BestGap}
    IN  IF near = {} THEN "Unknown (Background)"
        ELSE actions[CHOOSE i \in near : \A j \in near : j <= i].action

\* lines 401-402 replaced by assignments: the entry keeps the last event's
\* kind and process only
AddToArtifactOverwriting(entry, e) ==
    [entry EXCEPT !.syscalls = {e.type}, !.processes = {e.process_name}]

\* _analyze_results(), lines 401-402: syscalls.add, processes.add
AddToArtifact(entry, e) ==
    [entry EXCEPT !.syscalls = @ \cup {e.type},
                  !.processes = @ \cup {e.process_name}]

\* _analyze_results(), lines 384-402: the dict unique_artifacts, as the
\* sequence of its items in insertion order
RECURSIVE UniqueArtifacts(_, _)
UniqueArtifacts(evts, actions) ==
    IF evts = <<>> THEN <<>>
    ELSE LET prev == UniqueArtifacts(SubSeq(evts, 1, Len(evts) - 1), actions)
             e == evts[Len(evts)]
             at == {i \in 1..Len(prev) : prev[i].filepath = e.filename}
         IN  IF at = {}
               THEN Append(prev,
                      AddToArtifact(
                        [filepath |-> e.filename,
                         cause_action |-> LikelyCause(e.timestamp, actions),
                         syscalls |-> {}, processes |-> {}], e))
               ELSE [i \in 1..Len(prev) |->
                       IF i \in at THEN AddToArtifact(prev[i], e)
                                   ELSE prev[i]]

\* what a path of the log can be when the report is built: gone, a file
\* that can be read, a file that exists but cannot be read, or a directory
\* (also a file that goes between os.path.exists and extract)
FileStates == {"missing", "file", "unreadable", "directory"}

\* MetadataExtractor.extract(filepath) called on an existing path, lines
\* 26-65: None for a directory or a path gone by now, the metadata dict,
\* or the error dict of the except branch
Extract(state) ==
    CASE state = "file" -> "extracted"
      [] state = "unreadable" -> "error"
      [] OTHER -> "None"

\* _analyze_results(), lines 404-416: one report entry per item;
\* ex[i] = the state of the i-th item's path
AnalyzeResults(evts, actions, ex) ==
    LET unique_artifacts == UniqueArtifacts(evts, actions)
    IN  [i \in 1..Len(unique_artifacts) |->
           [filepath |-> unique_artifacts[i].filepath,
            cause_action |-> unique_artifacts[i].cause_action,
            interactions |-> unique_artifacts[i].syscalls,
            accessed_by |-> unique_artifacts[i].processes,
            exists_on_disk |-> ex[i] # "missing",
            metadata |-> IF ex[i] # "missing" THEN Extract(ex[i])
                         ELSE "File Deleted or Inaccessible"]]

\* lines 418-424: json.dump into artifact_footprint.json; a failure to
\* open or write the file is logged and nothing is written
SaveReport(written) ==
    report_file' = IF written THEN "written" ELSE "absent"

\* the number of distinct paths in an event log
NumPaths(evts) == Cardinality({evts[i].filename : i \in 1..Len(evts)})

\* run(), line 346: self._analyze_results()
Analyze ==
    /\ pc = "analyze"
    /\ \E ex \in [1..NumPaths(all_events) -> FileStates] :
           report' = AnalyzeResults(all_events, fuzzer_log, ex)
    /\ \E written \in BOOLEAN : SaveReport(written)
    /\ pc' = "done"
    /\ UNCHANGED <<tracerVars, displayVars, ipcVars, procVars, runVars>>
    /\ UNCHANGED <<chanVars, fuzzer_log, agentVars, crawlVars, callVars>>

\* KeyboardInterrupt delivered to the controller: inside the try block it
\* is swallowed (line 332) and the run goes on to the final drain; elsewhere
\* inside the `with` block it leaves through XvfbDisplay.__exit__
Interrupt ==
    /\ \/ /\ pc \in TryPcs
          /\ pc' = "drain_list"
          /\ exc' = exc
       \/ /\ pc \in BodyPcs
          /\ pc' = "exit_flux"
          /\ exc' = "KeyboardInterrupt"
    /\ UNCHANGED <<tracerVars, displayVars, ipcVars, procVars, profile,
                   elapsed, all_events, total_score, scored>>
    /\ UNCHANGED sessionFrame

\* the target application exits or crashes
TargetDies ==
    /\ pc \notin EndPcs
    /\ crashes < MaxCrashes
    /\ proc.alive
    /\ proc' = [proc EXCEPT !.alive = FALSE]
    /\ crashes' = crashes + 1
    /\ UNCHANGED <<tracerVars, displayVars, ipcVars, fuzzer_proc, recov,
                   sessVars>>
    /\ UNCHANGED sessionFrame

\* the agent process exits or crashes
AgentDies ==
    /\ pc \notin EndPcs
    /\ crashes < MaxCrashes
    /\ fuzzer_proc.alive
    /\ fuzzer_proc' = [fuzzer_proc EXCEPT !.alive = FALSE]
    /\ crashes' = crashes + 1
    /\ UNCHANGED <<tracerVars, displayVars, ipcVars, proc, recov, sessVars>>
    /\ UNCHANGED sessionFrame

\* the running target writes into its profile directory
TargetWrites ==
    /\ pc \notin EndPcs
    /\ proc.alive
    /\ profile.exists /\ ~profile.dirty
    /\ profile' = [profile EXCEPT !.dirty = TRUE]
    /\ UNCHANGED <<tracerVars, displayVars, ipcVars, procVars, pc, exc,
                   elapsed, all_events, total_score, scored>>
    /\ UNCHANGED sessionFrame

\* the polling thread while a session runs
SessionPoll ==
    /\ pc \notin EndPcs
    /\ n_appended < MaxSessionEvents
    /\ \E e \in SessionEvents : ProcessEvent(e)
    /\ UNCHANGED <<last_raw, displayVars, ipcVars, procVars, sessVars>>
    /\ UNCHANGED sessionFrame

\* the objects as their constructors leave them
\* ------------------------------------------------------------------------
\* IntelligentFuzzer: the agent's data
\* ------------------------------------------------------------------------
\* the "actions" of the target's profile in the configuration file
ConfigActions == <<"save_page">>

\* the keys of q_values in insertion order (__init__, lines 41-51)
ActionOrder ==
    <<"ui_crawl", "ui_input", "nav_tab", "nav_escape", "random_click">>
        \o ConfigActions

Actions == {ActionOrder[i] : i \in 1..Len(ActionOrder)}

\* __init__, lines 41-51: the initial values, in halves
InitialQ ==
    [a \in Actions |->
        CASE a = "ui_crawl" -> 20
          [] a = "ui_input" -> 16
          [] a = "nav_tab" -> 10
          [] a = "nav_escape" -> 10
          [] a = "random_click" -> 4
          [] OTHER -> 10]

\* what get_current_ui_state() can return: "WIN:[title]" or the sentinel
UIStates == {"WIN:[Settings]", "WIN:[History]", "STATE_UNKNOWN"}

\* what get_artifact_count() can return
FetchedScores == 0..MaxFetched

\* the locals of start() before the first iteration
NoTurn ==
    [current_state |-> "None", visit_count |-> 0, state_reward |-> 0,
     delta |-> 0, artifact_reward |-> 0, action |-> "None"]

\* nothing done yet: no state reward credited, no action executed, no
\* choice made, no action performed, no score fetched (highest: the
\* highest score fetched so far; rewarded: the score increases paid as
\* artifact reward so far)
NoHistory ==
    [state_rewards |-> [s \in UIStates |-> <<>>],
     executed |-> [a \in Actions |-> 0],
     exploited |-> FALSE,
     before |-> "None",
     ok |-> TRUE,
     method |-> "None",
     credited |-> 0,
     highest |-> 0,
     rewarded |-> 0]

\* ------------------------------------------------------------------------
\* The accessibility trees the crawler is run on. A node is the sequence of
\* child indices leading to it from app_node.
\* ------------------------------------------------------------------------
\* fan: children of the start node's parent level (deeper nodes have at most
\* two); height: levels below app_node; frame: the first child of app_node
\* is a frame; kind: "unique" identities, one "shared" identity, attributes
\* that "raise", or a "cyclic" tree whose lowest nodes have app_node as child
Trees ==
    [fan : {1, 2, WideFan}, height : {2, TreeHeight}, frame : BOOLEAN,
     kind : {"unique", "shared", "raises", "cyclic"}]

\* no function called yet
NoCall == [fn |-> "None"]

\* no tree read yet
NoTree == [fan |-> 0, height |-> 0, frame |-> FALSE, kind |-> "unique"]

Constructed ==
    /\ tracer_running = FALSE
    /\ bpf = "None"
    /\ target_comm = <<>>
    /\ event_queue = <<>>
    /\ events = <<>>
    /\ n_appended = 0
    /\ last_raw = NoRaw
    /\ xvfb_proc = "None"
    /\ fluxbox_proc = "None"
    /\ auth_file = "absent"
    /\ ipc_running = FALSE
    /\ ipc_sock = "None"
    /\ artifact_count = 0
    /\ exc = "none"
    /\ proc = None
    /\ fuzzer_proc = None
    /\ recov = [t |-> 0, a |-> 0]
    /\ crashes = 0
    /\ elapsed = 0
    /\ all_events = <<>>
    /\ total_score = 0
    /\ scored = <<>>
    /\ cpc = "idle"
    /\ conn = "none"
    /\ wire = <<>>
    /\ rx = NoRx
    /\ fetch_ret = NoRet
    /\ served = [by |-> "none", score |-> 0]
    /\ fuzzer_log = <<>>
    /\ report = <<>>
    /\ report_file = "absent"
    /\ q_values = InitialQ
    /\ epsilon = 3
    /\ last_action = "None"
    /\ state_visits = [s \in UIStates |-> 0]
    /\ last_score = 0
    /\ agent_time = 0
    /\ turn = NoTurn
    /\ history = NoHistory
    /\ tree = NoTree
    /\ queue = <<>>
    /\ visited = {}
    /\ scanned_count = 0
    /\ candidates = <<>>
    /\ examined = <<>>
    /\ call = NoCall
    /\ ret = NoCall

\* a session about to run; the persistent profile directory may be left
\* over from an earlier session
Init ==
    /\ Constructed
    /\ pc = "start"
    /\ profile \in {[exists |-> FALSE, dirty |-> FALSE],
                    [exists |-> TRUE, dirty |-> TRUE]}

Controller ==
    \/ RunStart
    \/ RunEnterDisplay
    \/ RunStartTrace
    \/ RunLaunchTarget
    \/ RunLaunchFuzzer
    \/ RunStartLoop
    \/ LoopTop
    \/ CheckTarget
    \/ RecKillFuzzer
    \/ RecSetup
    \/ RecLaunchTarget
    \/ RecSettle
    \/ RecLaunchFuzzer
    \/ CheckFuzzer
    \/ GetList
    \/ GetClear
    \/ Process
    \/ Sleep
    \/ DrainList
    \/ DrainClear
    \/ DrainProcess
    \/ CleanupFuzzer
    \/ CleanupIpc
    \/ CleanupTracer
    \/ CleanupTarget
    \/ RunExitFluxbox
    \/ RunExitXvfb
    \/ RunExitAuth
    \/ Analyze

Next ==
    \/ Controller
    \/ Interrupt
    \/ TargetDies
    \/ AgentDies
    \/ TargetWrites
    \/ SessionPoll

Spec == Init /\ [][Next]_vars

\* the controller thread keeps running: every statement of run() that can
\* execute eventually does
LiveSpec == Spec /\ WF_vars(Controller)

\* ------------------------------------------------------------------------
\* The feedback wire protocol (core/fuzzing/ipc.py): str(), int(), and
\* FeedbackClient.get_artifact_count
\* ------------------------------------------------------------------------
Digits == <<"0", "1", "2", "3", "4", "5", "6", "7", "8", "9">>

IsDigit(c) == \E d \in 1..10 : Digits[d] = c

DigitVal(c) == (CHOOSE d \in 1..10 : Digits[d] = c) - 1

IsSpace(c) == c \in {" ", "\n", "\t", "\r"}

\* str(n).encode()
RECURSIVE FormatNat(_)
FormatNat(n) ==
    IF n < 10 THEN <<Digits[n + 1]>>
    ELSE Append(FormatNat(n \div 10), Digits[(n % 10) + 1])

FormatInt(n) == IF n < 0 THEN <<"-">> \o FormatNat(-n) ELSE FormatNat(n)

\* str.strip(): leading and trailing whitespace removed
RECURSIVE Strip(_)
Strip(s) ==
    IF s = <<>> THEN s
    ELSE IF IsSpace(s[1]) THEN Strip(Tail(s))
    ELSE IF IsSpace(s[Len(s)]) THEN Strip(SubSeq(s, 1, Len(s) - 1))
    ELSE s

\* the digits of an int() literal: digits, single underscores between them
DigitGroupOk(s) ==
    /\ s # <<>>
    /\ IsDigit(s[1])
    /\ IsDigit(s[Len(s)])
    /\ \A i \in 1..Len(s) : IsDigit(s[i]) \/ s[i] = "_"
    /\ \A i \in 1..(Len(s) - 1) : ~(s[i] = "_" /\ s[i + 1] = "_")

RECURSIVE DigitsValue(_)
DigitsValue(s) ==
    IF s = <<>> THEN 0
    ELSE IF s[Len(s)] = "_" THEN DigitsValue(SubSeq(s, 1, Len(s) - 1))
    ELSE 10 * DigitsValue(SubSeq(s, 1, Len(s) - 1)) + DigitVal(s[Len(s)])

\* int(data.decode()): ok = FALSE stands for UnicodeDecodeError (the byte
\* "0xFF") or ValueError
ParseInt(data) ==
    LET t == Strip(data)
        signed == t # <<>> /\ t[1] \in {"-", "+"}
        body == IF signed THEN Tail(t) ELSE t
    IN  IF (\E i \in 1..Len(data) : data[i] = "0xFF") \/ ~DigitGroupOk(body)
          THEN [ok |-> FALSE, value |-> 0]
          ELSE [ok |-> TRUE,
                value |-> IF signed /\ t[1] = "-" THEN -DigitsValue(body)
                                                 ELSE DigitsValue(body)]

\* a response that is no integer literal: int(data.decode()) raises
Malformed(data) == ~ParseInt(data).ok

\* an except clause that catches socket errors only
GetArtifactCountSocketErrorsOnly(x) ==
    IF x.kind # "data" THEN [status |-> "returned", value |-> 0]
    ELSE IF ParseInt(x.data).ok
      THEN [status |-> "returned", value |-> ParseInt(x.data).value]
      ELSE [status |-> "raised", value |-> 0]

\* get_artifact_count(): x is what connect/sendall/recv produced; every
\* exception ends in the bare except, which returns 0
GetArtifactCount(x) ==
    IF x.kind = "data" /\ ParseInt(x.data).ok
      THEN [status |-> "returned", value |-> ParseInt(x.data).value]
      ELSE [status |-> "returned", value |-> 0]

\* what a program other than the feedback server may answer on the port
ForeignReplies ==
    { <<>>, <<"x">>, <<"1", "x">>, <<" ", "7", "\n">>, <<"-", "1">>,
      <<"1", "_", "0">>, <<"_", "1">>, <<"+">>, <<"0xFF">>, <<"1", " ", "2">> }

\* ------------------------------------------------------------------------
\* The feedback channel driven alone: the server of the controller, the
\* client of the agent, and the loopback connection between them
\* ------------------------------------------------------------------------
ChanStart ==
    /\ ipc_sock = "None"
    /\ \E bound \in BOOLEAN : IpcStart(bound)
    /\ UNCHANGED <<chanVars, chanFrame>>

ChanStop ==
    /\ ipc_running
    /\ IpcStop
    /\ UNCHANGED <<chanVars, chanFrame>>

\* the controller publishes a score
Publish ==
    /\ \E score \in 0..MaxScore : UpdateCount(score)
    /\ UNCHANGED <<chanVars, chanFrame>>

\* get_artifact_count(), lines 68-71: connect and send the request; the
\* connection is refused when nothing listens on the port
FetchConnect ==
    /\ cpc = "idle"
    /\ IF ipc_sock = "listening"
         THEN /\ conn' = "GET"
              /\ cpc' = "recv"
              /\ UNCHANGED <<rx, fetch_ret>>
         ELSE IF ipc_sock = "unbound"
           THEN /\ conn' = "foreign"
                /\ cpc' = "recv"
                /\ UNCHANGED <<rx, fetch_ret>>
           ELSE /\ rx' = [kind |-> "refused", data |-> <<>>]
                /\ fetch_ret' = GetArtifactCount(rx')
                /\ UNCHANGED <<conn, cpc>>
    /\ UNCHANGED <<wire, served, ipcVars, chanFrame>>

\* _listen_loop() counting the requests it served in artifact_count
ListenLoopCounting ==
    /\ ipc_running
    /\ ipc_sock = "listening"
    /\ conn = "GET"
    /\ wire' = FormatInt(artifact_count)
    /\ served' = [by |-> "server", score |-> artifact_count]
    /\ artifact_count' = artifact_count + 1
    /\ conn' = "replied"
    /\ UNCHANGED <<cpc, rx, fetch_ret, ipc_running, ipc_sock, chanFrame>>

\* _listen_loop(), lines 45-52: accept, recv, answer a GET with the count
ListenLoop ==
    /\ ipc_running
    /\ ipc_sock = "listening"
    /\ conn = "GET"
    /\ wire' = FormatInt(artifact_count)
    /\ served' = [by |-> "server", score |-> artifact_count]
    /\ conn' = "replied"
    /\ UNCHANGED <<cpc, rx, fetch_ret, ipcVars, chanFrame>>

\* the port is held by another program (the server's bind failed)
ForeignAnswer ==
    /\ conn = "foreign"
    /\ \E junk \in ForeignReplies : wire' = junk
    /\ served' = [by |-> "foreign", score |-> 0]
    /\ conn' = "replied"
    /\ UNCHANGED <<cpc, rx, fetch_ret, ipcVars, chanFrame>>

\* get_artifact_count(), lines 72-73: the reply arrives
FetchRecv ==
    /\ cpc = "recv"
    /\ conn = "replied"
    /\ rx' = [kind |-> "data", data |-> wire]
    /\ fetch_ret' = GetArtifactCount(rx')
    /\ wire' = <<>>
    /\ conn' = "none"
    /\ cpc' = "idle"
    /\ UNCHANGED <<served, ipcVars, chanFrame>>

\* get_artifact_count(), line 69: no reply within the 0.5 s timeout
FetchTimeout ==
    /\ cpc = "recv"
    /\ conn # "replied"
    /\ rx' = [kind |-> "timeout", data |-> <<>>]
    /\ fetch_ret' = GetArtifactCount(rx')
    /\ conn' = "none"
    /\ cpc' = "idle"
    /\ UNCHANGED <<wire, served, ipcVars, chanFrame>>

ChanInit ==
    /\ Constructed
    /\ pc = "chan"
    /\ profile = [exists |-> FALSE, dirty |-> FALSE]

ChanNext ==
    \/ ChanStart
    \/ ChanStop
    \/ Publish
    \/ FetchConnect
    \/ ListenLoop
    \/ ForeignAnswer
    \/ FetchRecv
    \/ FetchTimeout

ChanSpec == ChanInit /\ [][ChanNext]_vars

\* C6: get_artifact_count never propagates an error, and whenever the
\* exchange failed (connection refused, timeout, empty or malformed
\* response) it returns 0.
C6_FetchNeverPropagates ==
    /\ fetch_ret.status # "raised"
    /\ (fetch_ret.status = "returned"
            /\ (rx.kind \in {"refused", "timeout"} \/ Malformed(rx.data)))
        => fetch_ret.value = 0

\* C6 witness: a fetch has returned after the peer sent a non-empty reply
\* that is no integer.
C6_Witness ==
    /\ fetch_ret.status = "returned"
    /\ rx.kind = "data"
    /\ rx.data # <<>>
    /\ Malformed(rx.data)

\* ------------------------------------------------------------------------
\* The tracer driven alone: start_trace, then the polling thread against a
\* caller that drains with get_events, then stop_trace
\* ------------------------------------------------------------------------
TracerStart ==
    /\ pc = "t_new"
    /\ \E name \in TargetNames, attached \in BOOLEAN :
           StartTrace(name, attached)
    /\ pc' = "t_idle"
    /\ UNCHANGED all_events
    /\ UNCHANGED tracerFrame

TracerPoll ==
    /\ \E e \in RawEvents : PollLoop(e)
    /\ UNCHANGED <<pc, all_events>>
    /\ UNCHANGED tracerFrame

TracerGetList ==
    /\ pc = "t_idle"
    /\ GetEventsList
    /\ pc' = "t_listed"
    /\ UNCHANGED all_events
    /\ UNCHANGED tracerFrame

TracerGetClear ==
    /\ pc = "t_listed"
    /\ GetEventsClear
    /\ pc' = "t_cleared"
    /\ UNCHANGED all_events
    /\ UNCHANGED tracerFrame

\* the caller keeps what get_events returned (all_events.extend)
TracerReturn ==
    /\ pc = "t_cleared"
    /\ all_events' = all_events \o events
    /\ events' = <<>>
    /\ pc' = "t_idle"
    /\ UNCHANGED <<tracer_running, bpf, target_comm, event_queue, n_appended,
                   last_raw>>
    /\ UNCHANGED tracerFrame

TracerStop ==
    /\ pc = "t_idle"
    /\ tracer_running
    /\ StopTrace
    /\ UNCHANGED <<pc, all_events>>
    /\ UNCHANGED tracerFrame

TracerInit ==
    /\ Constructed
    /\ pc = "t_new"
    /\ profile = [exists |-> FALSE, dirty |-> FALSE]

TracerNext ==
    \/ TracerStart
    \/ TracerPoll
    \/ TracerGetList
    \/ TracerGetClear
    \/ TracerReturn
    \/ TracerStop

TracerSpec == TracerInit /\ [][TracerNext]_vars

\* ------------------------------------------------------------------------
\* Properties of the tracer
\* ------------------------------------------------------------------------
MatchesAny(path, patterns) == \E pat \in patterns : Contains(path, pat)

\* the events get_events has handed out or still holds, and those queued
Delivered == all_events \o events
Held == event_queue \o all_events

\* C1: under any interleaving of the polling thread and get_events, every
\* event appended to the queue is returned by exactly one get_events call:
\* whenever no call is in progress, each appended event is either still
\* queued or has been returned, exactly once.
C1_NoEventLostOrDuplicated ==
    pc = "t_idle" =>
        \A t \in 1..n_appended :
            Cardinality({i \in 1..Len(Held) : Held[i].timestamp = t}) = 1

\* C2: no event that get_events returns, and none waiting in the queue, has
\* a path containing an exclude pattern, whether or not the path also
\* contains an include pattern.
C2_ExcludeTakesPrecedence ==
    \A i \in 1..Len(event_queue \o Delivered) :
        ~MatchesAny((event_queue \o Delivered)[i].filename, ignore_patterns)

\* C2 witness: the tracer has just processed an event of the target whose
\* path matches both lists, and get_events has returned other events.
C2_Witness ==
    /\ pc = "t_idle"
    /\ all_events # <<>>
    /\ MatchesAny(last_raw.fname, ignore_patterns)
    /\ MatchesAny(last_raw.fname, interest_patterns)
    /\ target_comm # <<>>
    /\ Contains(Lower(last_raw.comm), target_comm)

\* ------------------------------------------------------------------------
\* Properties of the session
\* ------------------------------------------------------------------------
DrainPcs == {"drain_list", "drain_clear", "drain_process"}

\* the lifecycle phase the controller is in: 0 INIT, 1 DISPLAY_UP,
\* 2 TRACER_ATTACHED, 3 TARGET_RUNNING, 4 AGENT_RUNNING, 5 MONITORING
\* (self-healing included), 6 DRAINING, 7 TORN_DOWN (teardown begun)
Phase(p) ==
    CASE p \in {"start", "xvfb_enter"} -> 0
      [] p = "start_trace" -> 1
      [] p = "launch_target" -> 2
      [] p = "launch_fuzzer" -> 3
      [] p = "start_loop" -> 4
      [] p \in TryPcs -> 5
      [] p \in DrainPcs -> 6
      [] OTHER -> 7

\* the display scope has been left and nothing of it remains
DisplayTornDown ==
    /\ fluxbox_proc # "running"
    /\ xvfb_proc = "terminated"
    /\ auth_file = "removed"

\* C3: a detected target death leads to exactly one target relaunch and
\* then exactly one agent relaunch: inside the recovery block the launches
\* made for this detection are none, then the target's, then the agent's,
\* the block is never entered again from its own end, and over a session
\* neither process is launched more often than once plus once per death.
C3_OneRelaunchPerCrash ==
    /\ pc \in {"rec_kill_fuzzer", "rec_setup", "rec_launch_target"}
          => recov = [t |-> 0, a |-> 0]
    /\ pc \in {"rec_settle", "rec_launch_fuzzer"}
          => recov = [t |-> 1, a |-> 0]
    /\ pc = "chk_fuzzer"
          => recov \in {[t |-> 0, a |-> 0], [t |-> 1, a |-> 1]}
    /\ proc.id <= 1 + crashes
    /\ fuzzer_proc.id <= 1 + crashes

\* C3 witness: a recovery has just completed after a target death.
C3_Witness ==
    /\ pc = "chk_fuzzer"
    /\ recov = [t |-> 1, a |-> 1]
    /\ proc.id = 2
    /\ proc.alive

\* C4: if the tracer fails to attach, the session goes no further: no
\* target and no agent is ever launched.
C4_AttachFailureIsFatal ==
    (pc \notin {"start", "xvfb_enter", "start_trace"} /\ bpf = "None")
        => (proc = None /\ fuzzer_proc = None)

\* C5: on every path that leaves the display scope after it was entered,
\* the window manager is terminated before the display server and the
\* auth file is removed only after both; once run() has ended nothing of the
\* display is left.
C5_TeardownOrder ==
    /\ xvfb_proc = "terminated" => fluxbox_proc # "running"
    /\ auth_file = "removed" => xvfb_proc = "terminated"
    /\ (pc \in EndPcs /\ exc # "FileNotFoundError") => DisplayTornDown

\* C5 witness: the scope was left by the return after a failed initial
\* launch, with a window manager that had been running.
C5_Witness ==
    /\ pc = "returned"
    /\ fluxbox_proc = "terminated"
    /\ DisplayTornDown

AtDeadline == pc \in TryPcs /\ elapsed >= Duration

\* run() has ended with the display gone and, unless a KeyboardInterrupt
\* is leaving run(), with _cleanup done: agent, feedback server, tracer and
\* target stopped
TornDown ==
    /\ pc \in EndPcs
    /\ DisplayTornDown
    /\ exc = "none" => /\ ~proc.alive
                       /\ ~fuzzer_proc.alive
                       /\ ~tracer_running
                       /\ ~ipc_running

\* C8: once the duration has elapsed the monitoring loop exits whatever the
\* state of the target and the agent, the final drain is performed and the
\* session ends torn down; only a KeyboardInterrupt arriving after the loop
\* was left can cut the drain short, and then the display is still torn
\* down.
C8_DeadlineLeadsToTeardown ==
    /\ AtDeadline ~> (pc = "drain_process" \/ exc = "KeyboardInterrupt")
    /\ AtDeadline ~> TornDown

\* C8 witness: the final drain is reached after the deadline with both the
\* target and the agent dead.
C8_Witness ==
    /\ pc = "drain_process"
    /\ elapsed >= Duration
    /\ exc = "none"
    /\ proc # None
    /\ ~proc.alive
    /\ ~fuzzer_proc.alive

\* C9: when the relaunch of the target fails during recovery the loop is
\* left at once, and from then on no agent and no target is launched and
\* the loop is not entered again.
C9_FailedRelaunchAborts ==
    [][/\ (pc = "rec_launch_target" /\ proc' = None) => pc' = "drain_list"
       /\ (proc = None /\ fuzzer_proc # None)
             => /\ proc' = None
                /\ fuzzer_proc'.id = fuzzer_proc.id
                /\ pc' \notin TryPcs]_vars

\* C9 witness: a session whose recovery failed to relaunch the target has
\* ended.
C9_Witness ==
    /\ pc = "done"
    /\ proc = None
    /\ fuzzer_proc # None
    /\ crashes >= 1

\* C10: when the agent is found dead while the target is alive, the step
\* that restarts it launches one new agent and leaves the target's process
\* handle and the profile directory as they were.
C10_AgentOnlyRestart ==
    [][(pc = "chk_fuzzer" /\ pc' = "get_list"
            /\ ~fuzzer_proc.alive /\ proc.alive)
          => /\ fuzzer_proc' = [id |-> fuzzer_proc.id + 1, alive |-> TRUE]
             /\ proc' = proc
             /\ profile' = profile]_vars

\* C10 witness: the agent died alone and has been restarted; the target is
\* still the first one launched.
C10_Witness ==
    /\ pc = "get_list"
    /\ crashes = 1
    /\ fuzzer_proc = [id |-> 2, alive |-> TRUE]
    /\ proc = [id |-> 1, alive |-> TRUE]

\* __main__ of orchestrator.py: the status the interpreter exits with once
\* session.run() has ended. There is no sys.exit call, so it is 0 when run()
\* returned (normally or by the `return` of line 270) and non-zero only
\* when an exception left run()
ExitStatus == IF pc = "raised" THEN 1 ELSE 0

\* start_trace was called and its except branch ran
AttachFailed == target_comm # <<>> /\ bpf = "None"

\* C11: the controller exits with status 0 on normal completion, and with a
\* non-zero status when the tracer failed to attach or when the initial
\* launch found no target binary.
C11_ExitStatus ==
    pc \in EndPcs =>
        /\ (pc = "done" /\ ~AttachFailed) => ExitStatus = 0
        /\ (AttachFailed \/ exc = "return") => ExitStatus # 0

\* ------------------------------------------------------------------------
\* The analysis driven alone: an event log is accumulated, the agent writes
\* its action log, then _analyze_results builds the report
\* ------------------------------------------------------------------------
\* the events a log is made of: [process_name, type, filename]
ReportEvents ==
    { [process_name |-> CommChrome, type |-> "OPEN", filename |-> PathKeep],
      [process_name |-> CommChrome, type |-> "DELETE", filename |-> PathKeep],
      [process_name |-> CommBash, type |-> "OPEN", filename |-> PathKeep],
      [process_name |-> CommBash, type |-> "RENAME", filename |-> PathHome] }

\* run(), lines 318 and 337: self.all_events.extend(...); time.time() of the
\* new event is that of the last one or three seconds later
ReportExtend ==
    /\ pc = "r_collect"
    /\ Len(all_events) < MaxReportEvents
    /\ \E e \in ReportEvents, later \in {0, 3} :
         LET last == IF all_events = <<>> THEN 1
                     ELSE all_events[Len(all_events)].timestamp
         IN  all_events' = Append(all_events,
                 [timestamp |-> last + later,
                  process_name |-> e.process_name,
                  type |-> e.type,
                  filename |-> e.filename])
    /\ UNCHANGED <<pc, reportVars, events, event_queue, tracer_running, bpf,
                   target_comm, n_appended, last_raw>>
    /\ UNCHANGED reportFrame

\* the agent logs an "[Action]" line (logger.info in the act_* methods):
\* an Escape first, Tab navigations after it
ReportLogAction ==
    /\ pc = "r_collect"
    /\ Len(fuzzer_log) < MaxLogLines
    /\ \E t \in {1, 2} :
         LET name == IF fuzzer_log = <<>> THEN "Escape State"
                     ELSE "Navigation -> Tab"
         IN  fuzzer_log' = Append(fuzzer_log, [time |-> t, action |-> name])
    /\ UNCHANGED <<pc, report, report_file, all_events, tracerVars>>
    /\ UNCHANGED reportFrame

ReportAnalyze ==
    /\ pc = "r_collect"
    /\ \E ex \in [1..NumPaths(all_events) -> FileStates] :
           report' = AnalyzeResults(all_events, fuzzer_log, ex)
    /\ \E written \in BOOLEAN : SaveReport(written)
    /\ pc' = "r_done"
    /\ UNCHANGED <<fuzzer_log, all_events, tracerVars>>
    /\ UNCHANGED reportFrame

ReportInit ==
    /\ Constructed
    /\ pc = "r_collect"
    /\ profile = [exists |-> FALSE, dirty |-> FALSE]

ReportNext ==
    \/ ReportExtend
    \/ ReportLogAction
    \/ ReportAnalyze

ReportSpec == ReportInit /\ [][ReportNext]_vars

\* the events of the log that concern one path
EventsOf(path) == {i \in 1..Len(all_events) : all_events[i].filename = path}

\* C12: the report has exactly one entry per distinct path of the event
\* log, and each entry's kinds (processes) are exactly the kinds (processes)
\* of the events observed for its path.
C12_OneEntryPerPath ==
    pc = "r_done" =>
        /\ Len(report) = NumPaths(all_events)
        /\ \A i, j \in 1..Len(report) :
              report[i].filepath = report[j].filepath => i = j
        /\ \A i \in 1..Len(report) :
              /\ EventsOf(report[i].filepath) # {}
              /\ report[i].interactions =
                    {all_events[k].type : k \in EventsOf(report[i].filepath)}
              /\ report[i].accessed_by =
                    {all_events[k].process_name :
                        k \in EventsOf(report[i].filepath)}

\* C12 witness: a log of three events over two paths, one path seen with
\* two kinds and two processes.
C12_Witness ==
    /\ pc = "r_done"
    /\ Len(all_events) = 3
    /\ Len(report) = 2
    /\ \E i \in 1..2 : /\ Cardinality(report[i].interactions) = 2
                       /\ Cardinality(report[i].accessed_by) = 2

\* ------------------------------------------------------------------------
\* IntelligentFuzzer.start(): the agent's control loop, driven alone
\* ------------------------------------------------------------------------
\* self.alpha = 0.5, in halves
alpha == 1

\* the values random.random() is drawn from, in tenths
RandomDraws == {0, 5}

\* start(), lines 372-379, every later visit costing the same
StateRewardFlat(current_state, visit_count) ==
    IF current_state # "STATE_UNKNOWN"
      THEN IF visit_count = 1 THEN 50 ELSE -1
      ELSE 0

\* start(), lines 372-379: state_reward
StateReward(current_state, visit_count) ==
    IF current_state # "STATE_UNKNOWN"
      THEN IF visit_count = 1 THEN 50 ELSE -1 * (visit_count - 1)
      ELSE 0

\* line 385 without the cost of a tick that found nothing
ArtifactRewardNoCost(delta) == IF delta > 0 THEN delta * 10 ELSE 0

\* start(), line 385: artifact_reward
ArtifactReward(delta) == IF delta > 0 THEN delta * 10 ELSE -2

\* update_q_table with the reward credited to every action
UpdateQTableAll(q, last, reward) ==
    IF last = "None" THEN q
    ELSE [a \in DOMAIN q |-> q[a] + alpha * reward]

\* update_q_table(), lines 333-338; q is in halves, so that
\* old_q + self.alpha * reward is q[last] + alpha * reward
UpdateQTable(q, last, reward) ==
    IF last = "None" THEN q
    ELSE [q EXCEPT ![last] = @ + alpha * reward]

\* choose_action(), lines 328-329: the first key of the largest value (the
\* sort is stable, reverse=True keeps the order of equal items)
BestAction(q) ==
    LET best == CHOOSE i \in 1..Len(ActionOrder) :
                  \A j \in 1..Len(ActionOrder) :
                     /\ q[ActionOrder[j]] <= q[ActionOrder[i]]
                     /\ q[ActionOrder[j]] = q[ActionOrder[i]] => i <= j
    IN  ActionOrder[best]

\* act_hotkey(), lines 300-319: False when the name is no configured action
ActHotkey(action_name) == action_name \in {ConfigActions[i] : i \in 1..Len(ConfigActions)}

\* perform_action(), lines 340-350: the method the if/elif chain calls
Dispatch(action_name) ==
    CASE action_name = "targeted_click" -> "act_targeted_click"
      [] action_name = "random_click" -> "act_random_click"
      [] action_name = "nav_tab" -> "act_navigation"
      [] action_name = "nav_escape" -> "act_escape"
      [] OTHER -> "act_hotkey"

\* perform_action(), lines 340-350: the result of the act_* method called,
\* which perform_action does not return
ActResult(action_name) ==
    IF action_name \in {"random_click", "nav_tab", "nav_escape"} THEN TRUE
    ELSE ActHotkey(action_name)

\* start(), lines 353-365: connect(), then the first fetch of the score
AgentStart ==
    /\ pc = "a_new"
    /\ \E connected \in BOOLEAN :
         IF connected
           THEN /\ \E score \in FetchedScores :
                     /\ last_score' = score
                     /\ history' = [history EXCEPT !.highest = score]
                /\ pc' = "a_loop"
           ELSE /\ pc' = "a_return"
                /\ UNCHANGED <<last_score, history>>
    /\ UNCHANGED <<q_values, epsilon, last_action, state_visits, agent_time,
                   turn>>
    /\ UNCHANGED agentFrame

\* start(), line 367: while time.time() - start_time < self.duration
AgentLoop ==
    /\ pc = "a_loop"
    /\ pc' = IF agent_time < AgentDuration THEN "a_state" ELSE "a_return"
    /\ UNCHANGED agentVars
    /\ UNCHANGED agentFrame

\* start(), lines 368-379: the state is read and its reward computed
AgentObserve ==
    /\ pc = "a_state"
    /\ \E current_state \in UIStates :
         LET visit_count == state_visits[current_state] + 1
             state_reward == StateReward(current_state, visit_count)
         IN  /\ state_visits' =
                   [state_visits EXCEPT ![current_state] = visit_count]
             /\ turn' = [turn EXCEPT !.current_state = current_state,
                                     !.visit_count = visit_count,
                                     !.state_reward = state_reward]
             /\ history' = [history EXCEPT
                   !.state_rewards[current_state] = Append(@, state_reward)]
    /\ pc' = "a_fetch"
    /\ UNCHANGED <<q_values, epsilon, last_action, last_score, agent_time>>
    /\ UNCHANGED agentFrame

\* start(), lines 381-386: the score is fetched, the artifact reward computed
AgentFetch ==
    /\ pc = "a_fetch"
    /\ \E current_score \in FetchedScores :
         LET delta == current_score - last_score
         IN  /\ last_score' = current_score
             /\ turn' = [turn EXCEPT !.delta = delta,
                             !.artifact_reward = ArtifactReward(delta)]
             /\ history' =
                  [history EXCEPT
                     !.highest = IF current_score > @ THEN current_score
                                 ELSE @,
                     !.rewarded = IF ArtifactReward(delta) > 0
                                    THEN @ + ArtifactReward(delta) \div 10
                                    ELSE @]
    /\ pc' = "a_update"
    /\ UNCHANGED <<q_values, epsilon, last_action, state_visits, agent_time>>
    /\ UNCHANGED agentFrame

\* start(), line 388: self.update_q_table(artifact_reward + state_reward)
AgentUpdate ==
    /\ pc = "a_update"
    /\ LET reward == turn.artifact_reward + turn.state_reward
       IN  /\ q_values' = UpdateQTable(q_values, last_action, reward)
           /\ history' = [history EXCEPT !.credited = reward]
    /\ pc' = "a_choose"
    /\ UNCHANGED <<epsilon, last_action, state_visits, last_score, agent_time,
                   turn>>
    /\ UNCHANGED agentFrame

\* line 391 left out: the action chosen is not remembered
AgentChooseKeepingLast ==
    /\ pc = "a_choose"
    /\ \E r \in RandomDraws :
         IF r < epsilon
           THEN \E a \in Actions :
                  /\ turn' = [turn EXCEPT !.action = a]
                  /\ history' = [history EXCEPT !.exploited = FALSE,
                                                !.before = last_action]
           ELSE /\ turn' = [turn EXCEPT !.action = BestAction(q_values)]
                /\ history' = [history EXCEPT !.exploited = TRUE,
                                              !.before = last_action]
    /\ pc' = "a_perform"
    /\ UNCHANGED <<q_values, epsilon, last_action, state_visits, last_score,
                   agent_time>>
    /\ UNCHANGED agentFrame

\* start(), lines 390-391: action = self.choose_action();
\* self.last_action = action
AgentChoose ==
    /\ pc = "a_choose"
    /\ \E r \in RandomDraws :
         IF r < epsilon
           THEN \E a \in Actions :
                  /\ last_action' = a
                  /\ turn' = [turn EXCEPT !.action = a]
                  /\ history' = [history EXCEPT !.exploited = FALSE,
                                                !.before = last_action]
           ELSE /\ last_action' = BestAction(q_values)
                /\ turn' = [turn EXCEPT !.action = BestAction(q_values)]
                /\ history' = [history EXCEPT !.exploited = TRUE,
                                              !.before = last_action]
    /\ pc' = "a_perform"
    /\ UNCHANGED <<q_values, epsilon, state_visits, last_score, agent_time>>
    /\ UNCHANGED agentFrame

\* start(), line 392: self.perform_action(action)
AgentPerform ==
    /\ pc = "a_perform"
    /\ history' = [history EXCEPT !.executed[turn.action] = @ + 1,
                                  !.ok = ActResult(turn.action),
                                  !.method = Dispatch(turn.action)]
    /\ pc' = "a_sleep"
    /\ UNCHANGED <<q_values, epsilon, last_action, state_visits, last_score,
                   agent_time, turn>>
    /\ UNCHANGED agentFrame

\* the sleep at the end of an iteration, raising the exploration rate
AgentSleepRaisingRate ==
    /\ pc = "a_sleep"
    /\ agent_time' = agent_time + 2
    /\ epsilon' = epsilon + 1
    /\ pc' = "a_loop"
    /\ UNCHANGED <<q_values, last_action, state_visits, last_score, turn,
                   history>>
    /\ UNCHANGED agentFrame

\* start(), line 396: time.sleep(2)
AgentSleep ==
    /\ pc = "a_sleep"
    /\ agent_time' = agent_time + 2
    /\ pc' = "a_loop"
    /\ UNCHANGED <<q_values, epsilon, last_action, state_visits, last_score,
                   turn, history>>
    /\ UNCHANGED agentFrame

AgentInit ==
    /\ Constructed
    /\ pc = "a_new"
    /\ profile = [exists |-> FALSE, dirty |-> FALSE]

AgentNext ==
    \/ AgentStart
    \/ AgentLoop
    \/ AgentObserve
    \/ AgentFetch
    \/ AgentUpdate
    \/ AgentChoose
    \/ AgentPerform
    \/ AgentSleep

AgentSpec == AgentInit /\ [][AgentNext]_vars

\* ------------------------------------------------------------------------
\* Properties of the agent's loop
\* ------------------------------------------------------------------------
\* the state rewards credited for a state follow the novelty rule: +50 on
\* the first visit, then at most 0 and each lower than the one before
NoveltyRule(s) ==
    LET r == history.state_rewards[s]
    IN  \A i \in 1..Len(r) :
           IF i = 1 THEN r[i] = 50
           ELSE r[i] <= 0 /\ r[i] < r[i - 1]

\* C13 (as stated): the novelty reward (+50) is paid exactly once per
\* distinct UI state, on its first visit; every later visit of the same
\* state yields a state reward <= 0 that strictly decreases with the visit
\* count.
C13_NoveltyOnce == \A s \in UIStates : NoveltyRule(s)

\* C13 (amended): the novelty rule holds for every state read from a window
\* title; the sentinel state of an unreadable window title is credited 0 on
\* every visit.
C13_NoveltyOncePerWindow ==
    /\ \A s \in UIStates \ {"STATE_UNKNOWN"} : NoveltyRule(s)
    /\ \A i \in 1..Len(history.state_rewards["STATE_UNKNOWN"]) :
          history.state_rewards["STATE_UNKNOWN"][i] = 0

\* C13 witness: one window state was visited three times.
C13_Witness ==
    \E s \in UIStates \ {"STATE_UNKNOWN"} :
       /\ Len(history.state_rewards[s]) = 3
       /\ state_visits[s] = 3

\* C14: the update step sets the value of the last action to
\* old + alpha * reward and leaves every other value unchanged; no other
\* step of the loop changes the table.
C14_UpdateOnly ==
    [][ /\ pc = "a_update" =>
             q_values' =
               [a \in Actions |->
                  IF a = last_action
                    THEN q_values[a]
                           + alpha * (turn.artifact_reward + turn.state_reward)
                    ELSE q_values[a]]
        /\ pc # "a_update" => q_values' = q_values ]_vars

\* C14 witness: an update has changed the value of the action executed last.
C14_Witness ==
    /\ pc = "a_choose"
    /\ last_action # "None"
    /\ q_values[last_action] # InitialQ[last_action]
    /\ \A a \in Actions \ {last_action} : q_values[a] = InitialQ[a]

\* C15: the exploration rate never increases from one step to the next and
\* never drops below the rate it starts with (0.3), hence below no floor at
\* or under that rate.
C15_EpsilonNeverRises ==
    /\ [][epsilon' <= epsilon]_vars
    /\ [](epsilon >= 3)

\* C15 witness: the third iteration of the loop chooses an action.
C15_Witness == pc = "a_choose" /\ agent_time = 4 /\ epsilon = 3

\* C16: at elapsed time t the exploration rate is
\* max(eps_min, eps0 - (eps0 - eps_min) * t / duration) for a floor eps_min
\* below eps0 = 0.3 (both sides multiplied by the duration).
C16_LinearDecay ==
    pc = "a_choose" =>
        \E eps_min \in 0..2 :
           LET line == 3 * AgentDuration - (3 - eps_min) * agent_time
               floor == eps_min * AgentDuration
           IN  epsilon * AgentDuration = IF line > floor THEN line ELSE floor

\* C17: an action chosen without exploring maximizes the effective value:
\* the learned value minus 0.5 per earlier execution of the action, the
\* penalty doubled for the action of the previous iteration.
C17_ExploitMaximizesEffective ==
    LET Effective(a) ==
            q_values[a]
              - history.executed[a] * (IF a = history.before THEN 2 ELSE 1)
    IN  (pc = "a_perform" /\ history.exploited) =>
            \A b \in Actions : Effective(turn.action) >= Effective(b)

\* C18: the reward credited to an action whose execution reported failure
\* is lower than artifact reward plus state reward, by the failure penalty.
C18_FailurePenalty ==
    (pc = "a_choose" /\ last_action # "None" /\ ~history.ok) =>
        history.credited < turn.artifact_reward + turn.state_reward

\* ------------------------------------------------------------------------
\* FuzzerActions._get_interactable_elements(): the crawl, driven alone
\* ------------------------------------------------------------------------
\* curr_node.children, in order
ChildrenOf(node) ==
    IF Len(node) < tree.height
      THEN LET n == IF Len(node) <= 1 THEN tree.fan ELSE Min(tree.fan, 2)
           IN  [i \in 1..n |-> Append(node, i)]
      ELSE IF tree.kind = "cyclic" THEN << <<>> >> ELSE <<>>

\* reading name, roleName or position of the node raises
Raises(node) ==
    tree.kind = "raises" /\ node # <<>> /\ node[Len(node)] # 1

\* (name, roleName, str(position)) of the node
NodeId(node) ==
    IF tree.kind = "shared" /\ node # <<>> THEN <<0>> ELSE node

\* lines 59-65: the role is a target role and the box lies on the screen;
\* app_node and every child after the second are panels
IsCandidate(node) == node # <<>> /\ node[Len(node)] <= 2

\* lines 66-68: 1.0, and 10.0 more for a name holding a known keyword
Score(node) == IF node[Len(node)] = 2 THEN 11 ELSE 1

\* lines 73-78 without the depth test
EnqueuedAtAnyDepth(node, depth) ==
    [i \in 1..Len(ChildrenOf(node)) |->
        [node |-> ChildrenOf(node)[i], depth |-> depth + 1]]

\* lines 73-78: the children are queued while depth < 3
Enqueued(node, depth) ==
    IF depth < MaxDepth
      THEN [i \in 1..Len(ChildrenOf(node)) |->
              [node |-> ChildrenOf(node)[i], depth |-> depth + 1]]
      ELSE <<>>

\* line 87: candidates.sort(key=score, reverse=True), a stable sort over
\* the two scores there are
SortCandidates(c) ==
    LET High(x) == x.score = 11
        Low(x) == x.score # 11
    IN  SelectSeq(c, High) \o SelectSeq(c, Low)

\* lines 18-36: no app_node, or the tree is read and the queue starts with
\* the first frame child of app_node, app_node itself if there is none
CrawlStart ==
    /\ pc = "c_new"
    /\ \E connected \in BOOLEAN :
         IF connected
           THEN /\ \E t \in Trees :
                     /\ tree' = t
                     /\ queue' = << [node |-> IF t.frame THEN <<1>> ELSE <<>>,
                                     depth |-> 0] >>
                /\ pc' = "c_loop"
           ELSE /\ pc' = "c_return"
                /\ UNCHANGED <<tree, queue>>
    /\ UNCHANGED <<visited, scanned_count, candidates, examined>>
    /\ UNCHANGED crawlFrame

\* lines 45-78: one iteration of the while loop
CrawlStep ==
    /\ pc = "c_loop"
    /\ queue # <<>>
    /\ scanned_count < scan_limit
    /\ LET curr_node == Head(queue).node
           depth == Head(queue).depth
       IN  /\ examined' = Append(examined, Head(queue))
           /\ IF Raises(curr_node) \/ NodeId(curr_node) \in visited
                THEN /\ queue' = Tail(queue)
                     /\ UNCHANGED <<visited, scanned_count, candidates>>
                ELSE /\ visited' = visited \cup {NodeId(curr_node)}
                     /\ scanned_count' = scanned_count + 1
                     /\ candidates' =
                          IF IsCandidate(curr_node)
                            THEN Append(candidates,
                                   [node |-> curr_node,
                                    score |-> Score(curr_node)])
                            ELSE candidates
                     /\ queue' = Tail(queue) \o Enqueued(curr_node, depth)
    /\ UNCHANGED <<pc, tree>>
    /\ UNCHANGED crawlFrame

\* lines 45 and 87-88: the loop ends, the candidates are sorted and returned
CrawlReturn ==
    /\ pc = "c_loop"
    /\ ~(queue # <<>> /\ scanned_count < scan_limit)
    /\ candidates' = SortCandidates(candidates)
    /\ pc' = "c_return"
    /\ UNCHANGED <<tree, queue, visited, scanned_count, examined>>
    /\ UNCHANGED crawlFrame

CrawlInit ==
    /\ Constructed
    /\ pc = "c_new"
    /\ profile = [exists |-> FALSE, dirty |-> FALSE]

CrawlNext ==
    \/ CrawlStart
    \/ CrawlStep
    \/ CrawlReturn

CrawlSpec == CrawlInit /\ [][CrawlNext]_vars

\* the node the crawl started at
StartNode == IF tree.frame THEN <<1>> ELSE <<>>

\* C19: no node four or more levels below the start node is taken off the
\* queue or returned as a candidate, whatever the height of the tree.
C19_DepthBound ==
    /\ \A i \in 1..Len(examined) :
          Len(examined[i].node) - Len(StartNode) <= MaxDepth
    /\ \A i \in 1..Len(candidates) :
          Len(candidates[i].node) - Len(StartNode) <= MaxDepth

\* C19 witness: the crawl of a tree of height 10 has returned after
\* examining a node three levels below the start node.
C19_Witness ==
    /\ pc = "c_return"
    /\ tree.height = TreeHeight
    /\ tree.kind = "unique"
    /\ \E i \in 1..Len(examined) :
          Len(examined[i].node) - Len(StartNode) = MaxDepth
    /\ \E i \in 1..Len(candidates) :
          Len(candidates[i].node) - Len(StartNode) = MaxDepth

\* C20: a crawl takes at most scan_limit (100) nodes off the queue, for
\* every tree.
C20_AtMostCeilingVisited == Len(examined) <= scan_limit

\* ------------------------------------------------------------------------
\* Functions called on their own: the configuration lookup and the UI state
\* ------------------------------------------------------------------------
\* the application names a session is started with
GoogleChrome ==
    <<"G", "o", "o", "g", "l", "e", " ", "C", "h", "r", "o", "m", "e">>
AppNames == { GoogleChrome, <<"C", "H", "R", "O", "M", "E">>,
              <<"b", "a", "s", "h">> }

\* the keys a configuration file can hold
ConfigKeys == { CommChrome, TargetName, <<"e", "-", "c">>,
                <<"c", "o", "d", "e">> }

\* the configuration file: missing, not parseable, or a dict whose keys
\* come in file order
ConfigFiles ==
    { [kind |-> "missing", keys |-> <<>>],
      [kind |-> "malformed", keys |-> <<>>] }
    \cup { [kind |-> "dict", keys |-> ks] :
             ks \in { <<>> } \cup { <<k>> : k \in ConfigKeys }
                    \cup { ks \in ConfigKeys \X ConfigKeys :
                                ks[1] # ks[2] } }

\* app_name.replace(" ", "-") without the lower()
NormalizedNameKeepCase(app_name) ==
    [i \in 1..Len(app_name) |->
        IF app_name[i] = " " THEN "-" ELSE app_name[i]]

\* orchestrator.py line 77, smart_tester.py line 83:
\* app_name.lower().replace(" ", "-")
NormalizedName(app_name) ==
    [i \in 1..Len(app_name) |->
        IF Lower(app_name)[i] = " " THEN "-" ELSE Lower(app_name)[i]]

\* _load_or_generate_config(), lines 73-123: the profile of the first key
\* that occurs in the normalized name; without one, a generated profile if
\* shutil.which finds the executable, {} otherwise
LoadOrGenerateConfig(file, app_name, found) ==
    LET hits == {i \in 1..Len(file.keys) :
                    Contains(NormalizedName(app_name), file.keys[i])}
    IN  IF file.kind = "dict" /\ hits # {}
          THEN [fn |-> "profile",
                key |-> file.keys[CHOOSE i \in hits : \A j \in hits : i <= j]]
          ELSE IF found THEN [fn |-> "generated"] ELSE [fn |-> "empty"]

\* ArtifactDiscoverySession.__init__ calls _load_or_generate_config
CallLoadConfig ==
    /\ pc = "f_new"
    /\ \E file \in ConfigFiles, app_name \in AppNames, found \in BOOLEAN :
         /\ call' = [fn |-> "load_config", file |-> file,
                     app_name |-> app_name, found |-> found]
         /\ ret' = LoadOrGenerateConfig(file, app_name, found)
    /\ pc' = "f_done"
    /\ UNCHANGED callFrame

\* the titles the active window can have
Titles ==
    { <<>> } \cup { <<a>> : a \in {"a", "A", " "} }
             \cup { <<a, b>> : a \in {"a", "A", " "}, b \in {"a", "A", " "} }

\* get_current_ui_state() with the title lower-cased
GetCurrentUiStateLowered(title, ok) ==
    IF ok THEN <<"W", "I", "N", ":", "[">> \o Lower(Strip(title \o <<"\n">>))
                 \o <<"]">>
          ELSE <<"STATE_UNKNOWN">>

\* get_current_ui_state(), lines 156-160: xdotool prints the title and a
\* newline; ok is FALSE when xdotool or the decoding fails
GetCurrentUiState(title, ok) ==
    IF ok THEN <<"W", "I", "N", ":", "[">> \o Strip(title \o <<"\n">>)
                 \o <<"]">>
          ELSE <<"STATE_UNKNOWN">>

\* start(), line 368, in two iterations of the loop
CallUiState ==
    /\ pc = "f_new"
    /\ \E t1 \in Titles, t2 \in Titles, ok1 \in BOOLEAN, ok2 \in BOOLEAN :
         /\ call' = [fn |-> "ui_state", title |-> <<t1, t2>>,
                     ok |-> <<ok1, ok2>>]
         /\ ret' = [fn |-> "ui_state",
                    state |-> <<GetCurrentUiState(t1, ok1),
                                GetCurrentUiState(t2, ok2)>>]
    /\ pc' = "f_done"
    /\ UNCHANGED callFrame

\* candidates.sort(key=lambda x: x[1], reverse=True): stable, descending
RECURSIVE SortByScore(_)
SortByScore(c) ==
    IF c = <<>> THEN <<>>
    ELSE LET rest == SortByScore(Tail(c))
             k == Cardinality({i \in 1..Len(rest) :
                                 rest[i].score > c[1].score})
         IN  SubSeq(rest, 1, k) \o <<c[1]>> \o SubSeq(rest, k + 1, Len(rest))

\* the nodes findChildren can hand to the loop: a name, and whether reading
\* the node's attributes raises (the remote tree changed under the scan)
FoundNodes == [name : {"save", "ok", "tab"}, raises : BOOLEAN]

\* lines 187-204: 1.0, +10 for a knowledge-base keyword ("save"), +5 for an
\* action verb ("save", "ok"), +5 for an element not interacted with yet
NodeScore(name) ==
    1 + (IF name = "save" THEN 10 ELSE 0)
      + (IF name \in {"save", "ok"} THEN 5 ELSE 0) + 5

\* IntelligentFuzzer._get_interactable_elements(), lines 162-211: nodes is
\* what findChildren returned (search_ok) ; the loop stops at the first
\* node whose attributes raise, the bare except passes, and the candidates
\* collected so far are sorted and returned
GetInteractableElements(app_node, search_ok, nodes) ==
    IF ~app_node THEN <<>>
    ELSE IF ~search_ok THEN <<>>
    ELSE LET bad == {i \in 1..Len(nodes) : nodes[i].raises}
             n == IF bad = {} THEN Len(nodes)
                  ELSE (CHOOSE i \in bad : \A j \in bad : i <= j) - 1
         IN  SortByScore([i \in 1..n |->
                            [node |-> i, score |-> NodeScore(nodes[i].name)]])

\* act_ui_crawl(), line 215: candidates = self._get_interactable_elements()
CallFindCandidates ==
    /\ pc = "f_new"
    /\ \E app_node \in BOOLEAN, search_ok \in BOOLEAN,
          nodes \in UNION {[1..n -> FoundNodes] : n \in 0..MaxFound} :
         /\ call' = [fn |-> "find", app_node |-> app_node,
                     search_ok |-> search_ok, nodes |-> nodes]
         /\ ret' = [fn |-> "returned",
                    candidates |->
                        GetInteractableElements(app_node, search_ok, nodes)]
    /\ pc' = "f_done"
    /\ UNCHANGED callFrame

\* the nodes a scan can meet: a role, the corner and the size of the
\* bounding box, and the `showing` state
UiNodes ==
    [role : {"push button", "entry", "text", "panel"},
     x : {-1, 0, ScreenWidth}, y : {0, ScreenHeight + 1},
     w : {0, 10}, h : {0, 10}, showing : BOOLEAN]

\* library.py, lines 59-64: the role is a target role, the size is positive
\* and the corner lies within 1920 x 1080
IsTarget(node) ==
    /\ node.role \in {"push button", "menu", "page tab", "entry", "link",
                      "document web", "section", "toggle button"}
    /\ node.w > 0 /\ node.h > 0
    /\ 0 <= node.x /\ node.x <= ScreenWidth
    /\ 0 <= node.y /\ node.y <= ScreenHeight

\* smart_tester.py, lines 181-183: the predicate given to findChildren
IsInteresting(node) ==
    /\ node.role \in {"menu", "push button", "page tab", "text",
                      "combo box", "check box", "menu item"}
    /\ node.showing

\* one node put before both scans: is it appended to the candidates
CallFilterNode ==
    /\ pc = "f_new"
    /\ \E node \in UiNodes :
         /\ call' = [fn |-> "filter", node |-> node]
         /\ ret' = [fn |-> "filtered", library |-> IsTarget(node),
                    agent |-> IsInteresting(node)]
    /\ pc' = "f_done"
    /\ UNCHANGED callFrame

\* FuzzerActions.act_ui_crawl(), library.py lines 166-192: what is done to
\* the chosen node and what is returned; xdo() never raises (lines 12-14)
LibraryActUiCrawl(found, focus_ok, click_ok) ==
    IF ~found THEN [ops |-> <<>>, result |-> FALSE]
    ELSE IF focus_ok
      THEN [ops |-> <<"grabFocus", "key Return">>, result |-> TRUE]
      ELSE [ops |-> <<"grabFocus", "click">>, result |-> click_ok]

\* IntelligentFuzzer.act_ui_crawl(), smart_tester.py lines 213-238
AgentActUiCrawl(found, click_ok) ==
    IF ~found THEN [ops |-> <<>>, result |-> FALSE]
    ELSE [ops |-> <<"click">>, result |-> click_ok]

\* act_ui_crawl() of both classes called on the same screen: found = the
\* scan returned candidates, focus_ok = grabFocus() does not raise,
\* click_ok = click() does not raise
CallActUiCrawl ==
    /\ pc = "f_new"
    /\ \E found \in BOOLEAN, focus_ok \in BOOLEAN, click_ok \in BOOLEAN :
         /\ call' = [fn |-> "crawl", found |-> found,
                     focus_ok |-> focus_ok, click_ok |-> click_ok]
         /\ ret' = [fn |-> "crawled",
                    library |-> LibraryActUiCrawl(found, focus_ok, click_ok),
                    agent |-> AgentActUiCrawl(found, click_ok)]
    /\ pc' = "f_done"
    /\ UNCHANGED callFrame

CallInit ==
    /\ Constructed
    /\ pc = "f_new"
    /\ profile = [exists |-> FALSE, dirty |-> FALSE]

CallNext ==
    \/ CallLoadConfig
    \/ CallUiState
    \/ CallFindCandidates
    \/ CallFilterNode
    \/ CallActUiCrawl

CallSpec == CallInit /\ [][CallNext]_vars

\* ------------------------------------------------------------------------
\* The scoring of drained batches (run(), lines 316-341), driven alone
\* ------------------------------------------------------------------------
\* run(), lines 316 and 335: get_events() returns a batch, empty or not;
\* last = the loop has been left and this is the final drain
ScoreDrain ==
    /\ pc = "s_tick"
    /\ \E n \in 0..MaxBatchEvents, last \in BOOLEAN :
         /\ n > 0 => Len(scored) < MaxBatches
         /\ events' = [i \in 1..n |->
                          [timestamp |-> 1, process_name |-> CommChrome,
                           type |-> "OPEN", filename |-> PathKeep]]
         /\ pc' = IF last THEN "s_final" ELSE "s_process"
    /\ UNCHANGED <<ipcVars, all_events, total_score, scored>>
    /\ UNCHANGED scoreFrame

\* run(), lines 317-323: a tick of the loop scores its batch
ScoreTick ==
    /\ pc = "s_process"
    /\ ScoreBatch
    /\ events' = <<>>
    /\ pc' = "s_tick"
    /\ UNCHANGED scoreFrame

\* run(), lines 336-341: the final drain scores its batch
ScoreFinal ==
    /\ pc = "s_final"
    /\ ScoreBatch
    /\ events' = <<>>
    /\ pc' = "s_done"
    /\ UNCHANGED scoreFrame

ScoreInit ==
    /\ Constructed
    /\ pc = "s_tick"
    /\ profile = [exists |-> FALSE, dirty |-> FALSE]

ScoreNext ==
    \/ ScoreDrain
    \/ ScoreTick
    \/ ScoreFinal

ScoreSpec == ScoreInit /\ [][ScoreNext]_vars

\* C21: whenever a key of the configuration occurs in the application name
\* lower-cased with spaces turned into hyphens, a profile whose key occurs
\* there is returned; "Google Chrome" is matched by the key "chrome".
C21_NormalizedLookup ==
    call.fn = "load_config" =>
        LET occurs(key) ==
                \E at \in 0..(Len(call.app_name) - Len(key)) :
                   \A j \in 1..Len(key) :
                      key[j] = IF call.app_name[at + j] = " " THEN "-"
                               ELSE LowerChar(call.app_name[at + j])
            keys == {call.file.keys[i] : i \in 1..Len(call.file.keys)}
        IN  /\ (\E key \in keys : occurs(key)) =>
                  ret.fn = "profile" /\ ret.key \in keys /\ occurs(ret.key)
            /\ (call.app_name = GoogleChrome /\ CommChrome \in keys) =>
                  ret.fn = "profile"

\* C21 witness: "Google Chrome" looked up in a file whose only key is
\* "chrome".
C21_Witness ==
    /\ call.fn = "load_config"
    /\ call.app_name = GoogleChrome
    /\ call.file.keys = <<CommChrome>>
    /\ ret = [fn |-> "profile", key |-> CommChrome]

\* C22 (as stated): two reads of the window title give the same state
\* exactly when the titles are the same.
C22_HashFollowsTitle ==
    call.fn = "ui_state" =>
        (call.title[1] = call.title[2] <=> ret.state[1] = ret.state[2])

\* C22 (amended): two successful reads give the same state exactly when
\* the titles are the same once leading and trailing whitespace is removed;
\* a failed read gives the sentinel, whatever the title.
C22_HashFollowsStrippedTitle ==
    call.fn = "ui_state" =>
        /\ (call.ok[1] /\ call.ok[2]) =>
              (Strip(call.title[1]) = Strip(call.title[2])
                  <=> ret.state[1] = ret.state[2])
        /\ \A i \in 1..2 :
              ~call.ok[i] <=> ret.state[i] = <<"STATE_UNKNOWN">>

\* C22 witness: two successful reads of different titles gave different
\* states.
C22_Witness ==
    /\ call.fn = "ui_state"
    /\ call.ok = <<TRUE, TRUE>>
    /\ call.title = << <<"a">>, <<"A">> >>
    /\ ret.state[1] # ret.state[2]

\* ------------------------------------------------------------------------
\* Properties of the feedback channel: the score a fetch returns
\* ------------------------------------------------------------------------
\* C23: a fetch answered by the feedback server returns the score the
\* server read, which is the last score published before the read (0 if
\* none); the stored score changes in no step that handles a request.
C23_FetchReturnsCurrentScore ==
    /\ []((cpc = "idle" /\ rx.kind = "data" /\ served.by = "server") =>
            fetch_ret = [status |-> "returned", value |-> served.score])
    /\ [][ /\ artifact_count' # artifact_count =>
                <<cpc, conn, wire, rx, fetch_ret>>'
                    = <<cpc, conn, wire, rx, fetch_ret>>
           /\ (conn = "GET" /\ conn' = "replied") =>
                served'.score = artifact_count ]_vars

\* C23 witness: a fetch returned the score read by the server although a
\* later score was published before the reply arrived.
C23_Witness ==
    /\ cpc = "idle"
    /\ rx.kind = "data"
    /\ served.by = "server"
    /\ served.score > 9
    /\ fetch_ret.value = served.score
    /\ artifact_count # served.score

\* ------------------------------------------------------------------------
\* Properties of the tracer: the filter
\* ------------------------------------------------------------------------
\* C24: the event the callback has just been handed is appended to the
\* queue if and only if (a) no target name was given or the lower-cased
\* process name contains the target name lower-cased and cut to 15
\* characters, (b) the path contains no exclude pattern and (c) the path
\* contains an include pattern.
C24_EnqueuedIff ==
    [][ (pc' = pc /\ (last_raw' # last_raw \/ n_appended' # n_appended)) =>
          LET e == last_raw'
              given == {n \in TargetNames :
                          target_comm = SubSeq(Lower(n), 1,
                                               IF Len(n) < 15 THEN Len(n)
                                               ELSE 15)}
              a == \A n \in given :
                      \/ n = <<>>
                      \/ \E at \in 0..(Len(e.comm) - Len(target_comm)) :
                            \A j \in 1..Len(target_comm) :
                               LowerChar(e.comm[at + j]) = target_comm[j]
              b == \A pat \in ignore_patterns : ~Contains(e.fname, pat)
              c == \E pat \in interest_patterns : Contains(e.fname, pat)
              enqueued ==
                  /\ Len(event_queue') = Len(event_queue) + 1
                  /\ SubSeq(event_queue', 1, Len(event_queue)) = event_queue
                  /\ event_queue'[Len(event_queue')].filename = e.fname
          IN  /\ given # {}
              /\ enqueued <=> (a /\ b /\ c)
              /\ ~enqueued => event_queue' = event_queue ]_vars

\* C24 witness: with a target name of 16 characters, an event of the
\* process whose 15-character comm is the cut name was queued, and the last
\* event handed over was of another process.
C24_Witness ==
    /\ target_comm = SubSeq(Lower(LongName), 1, 15)
    /\ event_queue # <<>>
    /\ event_queue[1].process_name = CommLong
    /\ last_raw.comm = CommBash
    /\ Len(event_queue) = 1
    /\ n_appended = 1

\* C25: the crawl returns a list and raises nothing, and when the
\* traversal fails (the search raises, or a node's attributes raise during
\* the loop) the list returned is empty.
C25_EmptyOnFailure ==
    call.fn = "find" =>
        /\ ret.fn = "returned"
        /\ (~call.search_ok
              \/ \E i \in 1..Len(call.nodes) : call.nodes[i].raises) =>
                 ret.candidates = <<>>

\* ------------------------------------------------------------------------
\* Properties of the session: recovery, teardown and report
\* ------------------------------------------------------------------------
\* C26: after the reset step of a recovery the profile directory exists and
\* holds none of the files the crashed target left in it.
C26_ProfileRecreated ==
    pc = "rec_launch_target" => profile.exists /\ ~profile.dirty

\* C27: once the analysis has run, the report file is written, it has an
\* entry for every distinct path of the event log, and every entry carries
\* either the extracted metadata or the mark of an inaccessible file
C27_ReportWrittenAndMarked ==
    pc = "r_done" =>
        /\ report_file = "written"
        /\ \A i \in 1..Len(all_events) :
               \E j \in 1..Len(report) :
                   report[j].filepath = all_events[i].filename
        /\ \A j \in 1..Len(report) :
               report[j].metadata \in
                   {"extracted", "File Deleted or Inaccessible"}

\* the steps of the teardown in the order of _cleanup() and __exit__
TeardownSteps ==
    <<"cl_fuzzer", "cl_ipc", "cl_tracer", "cl_target", "exit_flux",
      "exit_xvfb", "exit_auth">>

\* C28: the teardown attempts every step: from each step but the last the
\* controller goes on to the step that follows it, whether the step
\* succeeded or failed.
C28_EveryStepAttempted ==
    [][\A i \in 1..(Len(TeardownSteps) - 1) :
          (pc = TeardownSteps[i] /\ pc' # pc)
              => pc' = TeardownSteps[i + 1]]_vars

\* the recovery block of run(), lines 290-307, in program order
RecoverySteps ==
    <<"rec_kill_fuzzer", "rec_setup", "rec_launch_target", "rec_settle",
      "rec_launch_fuzzer">>

RecoveryPcs == {RecoverySteps[i] : i \in 1..Len(RecoverySteps)}

C30_RewardOfTick ==
    [][/\ (pc = "a_fetch" /\ pc' = "a_update")
           => turn'.artifact_reward =
                  IF last_score' > last_score
                    THEN 10 * (last_score' - last_score)
                    ELSE -2
       /\ (pc = "a_update" /\ pc' = "a_choose")
           => /\ history'.credited
                    = turn.artifact_reward + turn.state_reward
              /\ q_values' = UpdateQTable(q_values, last_action,
                                          history'.credited)]_vars

\* C30 witness: a tick in which the score came back lower than before has
\* paid the fixed cost on top of its state reward.
C30_Witness ==
    /\ pc = "a_choose"
    /\ turn.delta < 0
    /\ turn.artifact_reward = -2
    /\ history.credited = turn.state_reward - 2

\* ------------------------------------------------------------------------
\* Properties of the candidate scans
\* ------------------------------------------------------------------------
\* C31: a node is taken as a candidate, by either scan, only if its role is
\* in the allow-list, its box has positive width and height and lies within
\* the display resolution, and the node is showing.
C31_CandidateConditions ==
    call.fn = "filter" =>
        LET node == call.node
            box_ok == /\ node.w > 0 /\ node.h > 0
                      /\ 0 <= node.x /\ node.x <= ScreenWidth
                      /\ 0 <= node.y /\ node.y <= ScreenHeight
        IN  /\ ret.library =>
                  /\ node.role \in {"push button", "entry"}
                  /\ box_ok
                  /\ node.showing
            /\ ret.agent =>
                  /\ node.role \in {"push button", "text"}
                  /\ box_ok
                  /\ node.showing

\* C32: activating a candidate starts with grabbing the focus; the
\* activation key follows when that worked, and a click is made only right
\* after a failed focus attempt, never as the first thing done.
C32_FocusBeforeClick ==
    call.fn = "crawl" =>
        \A ops \in {ret.library.ops, ret.agent.ops} :
            /\ ops # <<>> => ops[1] = "grabFocus"
            /\ \A i \in 1..Len(ops) :
                  ops[i] = "click" =>
                      /\ i > 1
                      /\ ops[i - 1] = "grabFocus"
                      /\ ~call.focus_ok

\* ------------------------------------------------------------------------
\* Properties of the agent: the action catalog
\* ------------------------------------------------------------------------
\* C33: an action of the table, once chosen, is carried out by its own
\* implementation, and that implementation does its work: ui_crawl by
\* act_ui_crawl, ui_input by act_ui_input, nav_tab by act_navigation,
\* nav_escape by act_escape, random_click by act_random_click, a
\* configured hotkey by act_hotkey.
C33_OwnImplementation ==
    pc = "a_sleep" =>
        /\ history.method =
              CASE turn.action = "ui_crawl" -> "act_ui_crawl"
                [] turn.action = "ui_input" -> "act_ui_input"
                [] turn.action = "nav_tab" -> "act_navigation"
                [] turn.action = "nav_escape" -> "act_escape"
                [] turn.action = "random_click" -> "act_random_click"
                [] OTHER -> "act_hotkey"
        /\ history.ok

\* ------------------------------------------------------------------------
\* Properties of the published score
\* ------------------------------------------------------------------------
RECURSIVE SumSeq(_)
SumSeq(q) == IF q = <<>> THEN 0 ELSE q[1] + SumSeq(Tail(q))

\* the scores of the events of a batch, in halves of a point: a whole
\* point for a file that exists, half a point for one that is gone
BatchHalves(ex) == Len(ex) + Cardinality({i \in 1..Len(ex) : ex[i]})

\* a scoring step over an empty batch leaves the published value alone
EmptyBatchKeepsScore ==
    (pc \in {"s_process", "s_final"} /\ events = <<>>)
        => artifact_count' = artifact_count

\* C34 (as stated): after every scored batch the published value is the
\* integer part of the sum of the rewards of all events drained so far,
\* and a tick without events leaves it unchanged.
C34_PublishedIsIntOfSum ==
    /\ [](pc \in {"s_tick", "s_done"} =>
             artifact_count =
                 SumSeq([i \in 1..Len(scored) |-> BatchHalves(scored[i])])
                     \div 2)
    /\ [][EmptyBatchKeepsScore]_vars

\* C34 (amended): after every scored batch the published value is the sum,
\* over the batches drained so far, of the integer part of each batch's
\* summed event rewards; a tick without events leaves it unchanged.
C34_PublishedIsSumOfInts ==
    /\ [](pc \in {"s_tick", "s_done"} =>
             artifact_count =
                 SumSeq([i \in 1..Len(scored) |->
                            BatchHalves(scored[i]) \div 2]))
    /\ [][EmptyBatchKeepsScore]_vars

\* C34 witness: two batches were scored, the first a single file already
\* gone, the final one a file that exists and one that is gone; the two
\* half points were dropped one by one and 1 is published.
C34_Witness ==
    /\ pc = "s_done"
    /\ scored = << <<FALSE>>, <<TRUE, FALSE>> >>
    /\ artifact_count = 1

\* C35: the published score never decreases: no step lowers it, and every
\* batch adds a whole number that is not negative to the running total.
C35_PublishedNeverDecreases ==
    [][/\ artifact_count' >= artifact_count
       /\ total_score' >= total_score
       /\ total_score' \in Nat]_vars

\* C35 witness: a second batch was worth nothing (its one file was gone)
\* and the value published for it equals the one published before.
C35_Witness ==
    /\ pc = "s_tick"
    /\ scored = << <<TRUE>>, <<FALSE>> >>
    /\ artifact_count = 1
    /\ total_score = 1

\* ------------------------------------------------------------------------
\* Properties of the session: the supervised processes
\* ------------------------------------------------------------------------
\* C36: the controller never has two agents, or two targets, alive: the
\* handle of an agent or of a target is replaced by a new process only
\* when the process it held is dead (or there was none), and a handle is
\* replaced only by the next process launched.
C36_OneAgentOneTarget ==
    [][/\ fuzzer_proc'.id # fuzzer_proc.id
           => /\ ~fuzzer_proc.alive
              /\ fuzzer_proc'.id = fuzzer_proc.id + 1
       /\ (proc'.id # proc.id /\ proc' # None)
           => /\ ~proc.alive
              /\ proc'.id = proc.id + 1]_vars

\* C36 witness: an agent that was running when the target died has been
\* terminated by the recovery and replaced, and the new target and the new
\* agent are both alive.
C36_Witness ==
    /\ pc = "get_list"
    /\ crashes = 1
    /\ proc = [id |-> 2, alive |-> TRUE]
    /\ fuzzer_proc = [id |-> 2, alive |-> TRUE]
    /\ recov = [t |-> 0, a |-> 0]

\* ------------------------------------------------------------------------
\* Properties of the agent: score increases are rewarded once
\* ------------------------------------------------------------------------
\* C37: the score increases the agent has paid as artifact reward add up
\* to no more than the highest score it has fetched, which is at most the
\* highest score published; a fetch that failed and returned 0 does not
\* make the next successful fetch pay the same score again.
C37_NoDoubleCredit == history.rewarded <= history.highest

\* ------------------------------------------------------------------------
\* Properties of the session: what is stopped when run() returns
\* ------------------------------------------------------------------------
\* C38: whenever run() has returned, after the analysis or by the return
\* that follows a failed first launch of the target, the tracer and the
\* feedback server are stopped.
C38_StoppedOnReturn ==
    pc \in {"done", "returned"} => (~tracer_running /\ ~ipc_running)

\* ------------------------------------------------------------------------
\* Properties of the report: the cause of an artifact
\* ------------------------------------------------------------------------
\* C39: the cause of an entry is decided by the first event of its path:
\* the last action of the log, in log order, that is not later than that
\* event and less than 5 seconds earlier, "Unknown (Background)" if there
\* is none; the later events of the path play no part.
C39_CauseFromFirstEvent ==
    pc = "r_done" =>
        \A j \in 1..Len(report) :
            LET first == CHOOSE k \in EventsOf(report[j].filepath) :
                            \A m \in EventsOf(report[j].filepath) : k <= m
                at == all_events[first].timestamp
                inWindow == {a \in 1..Len(fuzzer_log) :
                                /\ fuzzer_log[a].time <= at
                                /\ at - fuzzer_log[a].time < 5}
            IN  IF inWindow = {}
                  THEN report[j].cause_action = "Unknown (Background)"
                  ELSE \E a \in inWindow :
                          /\ \A b \in inWindow : b <= a
                          /\ report[j].cause_action = fuzzer_log[a].action

\* C39 witness: a path seen twice, first right after the Escape and again
\* six seconds later, when only the Tab navigation is recent; its cause is
\* the Escape.
C39_Witness ==
    /\ pc = "r_done"
    /\ fuzzer_log = <<[time |-> 1, action |-> "Escape State"],
                      [time |-> 2, action |-> "Navigation -> Tab"]>>
    /\ \E j \in 1..Len(report) :
          /\ report[j].cause_action = "Escape State"
          /\ \E k, m \in EventsOf(report[j].filepath) :
                /\ all_events[k].timestamp = 1
                /\ all_events[m].timestamp = 7

\* ------------------------------------------------------------------------
\* Properties of the agent: the order of update and choice
\* ------------------------------------------------------------------------
\* C40: in every tick the table is updated first and the action chosen
\* after it; the update gives the tick's reward to the action chosen and
\* passed to perform_action in the tick before, and to no other; in the
\* first tick, with no action performed yet, it changes nothing; choosing
\* changes no value.
C40_UpdateBeforeChoice ==
    /\ [](pc = "a_update" =>
             IF turn.action = "None"
               THEN \A a \in Actions : history.executed[a] = 0
               ELSE history.executed[turn.action] >= 1)
    /\ [][/\ (pc' = "a_choose" /\ pc # "a_choose") => pc = "a_update"
          /\ (pc = "a_update" /\ pc' # pc) => pc' = "a_choose"
          /\ (pc = "a_update" /\ pc' = "a_choose") =>
                q_values' =
                  [a \in Actions |->
                     IF a = turn.action
                       THEN q_values[a]
                              + alpha * (turn.artifact_reward
                                           + turn.state_reward)
                       ELSE q_values[a]]
          /\ (pc = "a_choose" /\ pc' # pc) =>
                (pc' = "a_perform" /\ q_values' = q_values)]_vars

\* C40 witness: the second tick has updated the table and is about to
\* choose: the value of the first tick's action has moved by the second
\* tick's reward, the first tick's update having changed nothing.
C40_Witness ==
    /\ pc = "a_choose"
    /\ agent_time = 2
    /\ turn.action = "ui_crawl"
    /\ history.credited # 0
    /\ q_values = [InitialQ EXCEPT
                      !["ui_crawl"] = @ + alpha * history.credited]

============================================================================
